---- MODULE Spec2Model ----
(***************************************************************************)
(* Model of the amazon-ads-analytics report pipeline.                      *)
(*                                                                         *)
(* Tables (pandas DataFrames) are records [cols, rows]: the set of column  *)
(* names and the ordered sequence of rows.  Dates are integers yyyymmdd,   *)
(* NaT is 0.  Money is counted in integer cents.  A ratio computed by a    *)
(* float division is kept exact as a record [num, den] with den > 0.       *)
(***************************************************************************)
EXTENDS Integers, Sequences, FiniteSets, TLC

VARIABLES
    kdp_df,            \* normalized KDP royalty table (load_kdp_report)
    kdp_orders_df,     \* KDP order table (load_kdp_orders)
    config,            \* campaign configuration (load_config), or None
    campaign_summary,  \* result of generate_campaign_summary
    week,              \* <<week_start, week_end>> date strings handed to the core
    kdp_recon,         \* result of reconcile_kdp_sales, or None
    files,             \* the loaded search-term tables, in the order given
    search_term_df,    \* concatenated, then deduplicated search-term table
    targeting_df,      \* result of build_targeting_from_search_terms
    prior_week_df,     \* prior week's campaign table (get_prior_week_summary), or None
    asin_performance,      \* result of analyze_asin_targets, or None
    keyword_performance,   \* result of analyze_keywords, or None
    search_term_analysis,  \* result of analyze_search_terms, or None
    bid_recs,              \* result of recommend_bids, or None
    export,            \* an export file handed to a loader, or None
    loaded,            \* what the loader returned or raised, or None
    db,                \* committed content of the snapshot database, or None
    run,               \* options and output of the running report command, or None
    pc                 \* position of the report command

vars == <<kdp_df, kdp_orders_df, config, campaign_summary, week, kdp_recon,
          files, search_term_df, targeting_df, prior_week_df, asin_performance,
          keyword_performance, search_term_analysis, bid_recs, export, loaded, db, run, pc>>

reconVars == <<kdp_df, kdp_orders_df, config, campaign_summary, week, kdp_recon>>
pipeVars == <<files, search_term_df, targeting_df>>
analysisVars == <<prior_week_df, asin_performance, keyword_performance,
                  search_term_analysis, bid_recs>>

storeVars == <<db, run>>

ioVars == <<export, loaded, db, run>>

(***************************************************************************)
(* Bounds of the model.                                                    *)
(***************************************************************************)
MaxKdpRows == 2
MaxOrderRows == 3
MaxFiles == 2
MaxRows == 3
MaxTargets == 3
MaxDriftRows == 2
MaxBannerLines == 11
MaxDataLines == 2
MaxSheetRows == 2
MaxBreakdownRows == 2
MaxRuns == 3

(***************************************************************************)
(* Generic values and helpers.                                             *)
(***************************************************************************)
None == [none |-> TRUE]

NaT == 0

EmptyDf == [cols |-> {}, rows |-> <<>>]

\* DataFrame.empty: no rows or no columns
DfEmpty(df) == Len(df.rows) = 0 \/ df.cols = {}

\* all sequences over S of length at most n
SeqUpTo(S, n) == UNION {[1..k -> S] : k \in 0..n}

RECURSIVE SumSeq(_)
SumSeq(s) == IF s = <<>> THEN 0 ELSE Head(s) + SumSeq(Tail(s))

\* Series.sum() of one column
ColSum(rows, col) == SumSeq([i \in 1..Len(rows) |-> rows[i][col]])

\* a / b as an exact ratio (b > 0)
Ratio(a, b) == [num |-> a, den |-> b]

Zero == Ratio(0, 1)

RatioEq(p, q) == p.num * q.den = q.num * p.den

\* Timestamp.dt.day and Timestamp.to_period("M")
DayOf(d) == d % 100

PeriodM(d) == d \div 100

\* pd.to_datetime of a "YYYY-MM-DD" string, kept as <<year, month, day>>
ToDatetime(s) == s[1] * 10000 + s[2] * 100 + s[3]

\* date.strftime("%Y-%m-%d")
Strftime(d) == <<d \div 10000, (d \div 100) % 100, d % 100>>

\* order of two "YYYY-MM-DD" strings (character order = field order)
StrDateLeq(a, b) ==
    \/ a[1] < b[1]
    \/ a[1] = b[1] /\ a[2] < b[2]
    \/ a[1] = b[1] /\ a[2] = b[2] /\ a[3] <= b[3]

\* the elements of a finite set of integers in ascending order
RECURSIVE SortedInts(_)
SortedInts(S) ==
    IF S = {} THEN <<>>
    ELSE LET m == CHOOSE x \in S : \A y \in S : x <= y
         IN <<m>> \o SortedInts(S \ {m})

(***************************************************************************)
(* Strings are atomic values; Lexicon lists the names of the model in      *)
(* ascending string order, which is the order pandas sorts group keys in.  *)
(***************************************************************************)
Lexicon == <<" fantasy ", "Ascension", "B0AAA", "B0BBB", "B0ZZZ", "Campaign A",
             "Campaign B", "Descent", "Fantasy", "b0aaa", "ebook",
             "fantasy", "fantasy books", "paperback", "space opera">>

StrRank(s) == CHOOSE i \in 1..Len(Lexicon) : Lexicon[i] = s

\* str.strip() on the strings of the model
Strip(s) ==
    CASE s = " fantasy " -> "fantasy"
      [] s = "Broad " -> "Broad"
      [] OTHER -> s

\* str.lower() on the strings of the model
Lower(s) ==
    CASE s = "Fantasy" -> "fantasy"
      [] s = "B0AAA" -> "b0aaa"
      [] s = "B0BBB" -> "b0bbb"
      [] s = "B0ZZZ" -> "b0zzz"
      [] s = "EXACT" -> "exact"
      [] s = "Broad" -> "broad"
      [] OTHER -> s

\* a in b (substring) on the lower-case strings of the model
Contains(a, b) == a = b \/ <<a, b>> \in {<<"fantasy", "fantasy books">>}

(***************************************************************************)
(* Search-term tables (load_search_term_report) and the report pipeline.   *)
(***************************************************************************)
DateCols == {"start_date", "end_date"}

BaseCols == {"campaign_name", "targeting", "search_term", "match_type",
             "impressions", "clicks", "spend", "sales", "orders"}

Metrics1 == [impressions |-> 1000, clicks |-> 40, spend |-> 1200, sales |-> 2495, orders |-> 5]

Metrics2 == [impressions |-> 10, clicks |-> 0, spend |-> 0, sales |-> 0, orders |-> 0]

Metrics3 == [impressions |-> 500, clicks |-> 30, spend |-> 900, sales |-> 3493, orders |-> 7]

SearchTermRow(c, t, s, sd, ed, m) ==
    [campaign_name |-> c, targeting |-> t, search_term |-> s, match_type |-> "exact",
     start_date |-> sd, end_date |-> ed,
     impressions |-> m.impressions, clicks |-> m.clicks, spend |-> m.spend,
     sales |-> m.sales, orders |-> m.orders]

\* rows an export can hold: a base row, the same key with other numbers, a row
\* of another campaign, of another target, of another search term, and the base
\* key in another date range
SearchTermPool ==
    { SearchTermRow("Campaign A", "B0AAA", "B0AAA", 20240103, 20240109, Metrics1),
      SearchTermRow("Campaign A", "B0AAA", "B0AAA", 20240103, 20240109, Metrics3),
      SearchTermRow("Campaign B", "B0AAA", "B0AAA", 20240103, 20240109, Metrics1),
      SearchTermRow("Campaign A", "B0BBB", "B0AAA", 20240103, 20240109, Metrics3),
      SearchTermRow("Campaign A", "B0AAA", "B0ZZZ", 20240103, 20240109, Metrics2),
      SearchTermRow("Campaign A", "B0AAA", "B0AAA", 20240101, 20240107, Metrics3) }

\* a row restricted to the columns of its table
Project(r, cols) == [c \in cols |-> r[c]]

\* the tables one export file can load to, with at most n rows
FileTables(n) ==
    { [cols |-> cs, rows |-> rs] :
        cs \in {BaseCols \cup DateCols},
        rs \in SeqUpTo(SearchTermPool, n) }
    \cup
    { [cols |-> BaseCols, rows |-> rs] :
        rs \in SeqUpTo({Project(r, BaseCols) : r \in SearchTermPool}, n) }

\* number of rows loaded so far
RECURSIVE TotalRows(_)
TotalRows(fs) == IF fs = <<>> THEN 0 ELSE Len(Head(fs).rows) + TotalRows(Tail(fs))

\* pd.concat(frames, ignore_index=True): union of the columns, rows in frame
\* order, a column a frame lacks filled with the null value
PadRow(r, cols) == [c \in cols |-> IF c \in DOMAIN r THEN r[c] ELSE NaT]

RECURSIVE ConcatRows(_, _)
ConcatRows(fs, cols) ==
    IF fs = <<>> THEN <<>>
    ELSE [i \in 1..Len(Head(fs).rows) |-> PadRow(Head(fs).rows[i], cols)]
         \o ConcatRows(Tail(fs), cols)

Concat(fs) ==
    IF fs = <<>> THEN EmptyDf
    ELSE LET cols == UNION {fs[i].cols : i \in 1..Len(fs)}
         IN [cols |-> cols, rows |-> ConcatRows(fs, cols)]

\* the columns rows are compared on (analyze.py: dedup_cols)
DedupCols(df) ==
    {"campaign_name", "targeting", "search_term"} \cup (DateCols \cap df.cols)

\* keep="last"
RECURSIVE DropDupRowsKeepLast(_, _, _)
DropDupRowsKeepLast(rows, subset, seen) ==
    IF rows = <<>> THEN <<>>
    ELSE IF \E i \in 2..Len(rows) : Project(rows[i], subset) = Project(Head(rows), subset)
         THEN DropDupRowsKeepLast(Tail(rows), subset, seen)
         ELSE <<Head(rows)>> \o DropDupRowsKeepLast(Tail(rows), subset, seen)

\* keep=False
DropDupRowsKeepNone(rows, subset, seen) ==
    SelectSeq(rows, LAMBDA r :
        Cardinality({i \in 1..Len(rows) : Project(rows[i], subset) = Project(r, subset)}) = 1)

\* DataFrame.drop_duplicates(subset=..., keep="first")
RECURSIVE DropDupRows(_, _, _)
DropDupRows(rows, subset, seen) ==
    IF rows = <<>> THEN <<>>
    ELSE LET k == Project(Head(rows), subset)
         IN IF k \in seen
            THEN DropDupRows(Tail(rows), subset, seen)
            ELSE <<Head(rows)>> \o DropDupRows(Tail(rows), subset, seen \cup {k})

drop_duplicates(df, subset) ==
    [cols |-> df.cols, rows |-> DropDupRows(df.rows, subset, {})]

DeduplicateSkipped(df) == df

\* the deduplication step of report
Deduplicate(df) ==
    IF DfEmpty(df) THEN df ELSE drop_duplicates(df, DedupCols(df))

\* group keys of a groupby, in ascending key order
RECURSIVE SortedKeys(_, _)
SortedKeys(S, by) ==
    IF S = {} THEN <<>>
    ELSE LET m == CHOOSE x \in S : \A y \in S :
                     \/ x = y
                     \/ \E i \in 1..Len(by) :
                           /\ StrRank(x[by[i]]) < StrRank(y[by[i]])
                           /\ \A j \in 1..(i - 1) : x[by[j]] = y[by[j]]
         IN <<m>> \o SortedKeys(S \ {m}, by)

\* the rows of one group
GroupRows(rows, key) ==
    SelectSeq(rows, LAMBDA r : \A c \in DOMAIN key : r[c] = key[c])

TargetingCols == {"campaign_name", "targeting", "impressions", "clicks", "spend",
                  "sales", "orders", "ctr", "cpc", "acos", "targeting_raw"}

TargetAggregateFirst(key, g) ==
    [campaign_name |-> key.campaign_name, targeting |-> key.targeting,
     impressions |-> g[1].impressions, clicks |-> g[1].clicks, spend |-> g[1].spend,
     sales |-> g[1].sales, orders |-> g[1].orders,
     ctr |-> IF g[1].impressions > 0 THEN Ratio(g[1].clicks, g[1].impressions) ELSE Zero,
     cpc |-> IF g[1].clicks > 0 THEN Ratio(g[1].spend, g[1].clicks) ELSE Zero,
     acos |-> IF g[1].sales > 0 THEN Ratio(g[1].spend, g[1].sales) ELSE None,
     targeting_raw |-> key.targeting]

TargetAggregate(key, g) ==
    LET impressions == ColSum(g, "impressions")
        clicks == ColSum(g, "clicks")
        spend == ColSum(g, "spend")
        sales == ColSum(g, "sales")
        orders == ColSum(g, "orders")
    IN [campaign_name |-> key.campaign_name, targeting |-> key.targeting,
        impressions |-> impressions, clicks |-> clicks, spend |-> spend,
        sales |-> sales, orders |-> orders,
        ctr |-> IF impressions > 0 THEN Ratio(clicks, impressions) ELSE Zero,
        cpc |-> IF clicks > 0 THEN Ratio(spend, clicks) ELSE Zero,
        acos |-> IF sales > 0 THEN Ratio(spend, sales) ELSE None,
        targeting_raw |-> key.targeting]

build_targeting_from_search_terms(df) ==
    IF DfEmpty(df) THEN EmptyDf
    ELSE LET by == <<"campaign_name", "targeting">>
             keys == SortedKeys({Project(df.rows[i], {"campaign_name", "targeting"}) :
                                   i \in 1..Len(df.rows)}, by)
         IN [cols |-> TargetingCols,
             rows |-> [k \in 1..Len(keys) |->
                         TargetAggregate(keys[k], GroupRows(df.rows, keys[k]))]]

SummaryCols == {"campaign_name", "impressions", "clicks", "spend", "sales", "orders",
                "ctr", "avg_cpc", "acos", "roas"}

\* the campaign table with the ctr taken as the mean of the per-target ctr
CampaignAggregateMeanCtr(key, g) ==
    LET impressions == ColSum(g, "impressions")
        clicks == ColSum(g, "clicks")
        spend == ColSum(g, "spend")
        sales == ColSum(g, "sales")
        orders == ColSum(g, "orders")
        num == SumSeq([i \in 1..Len(g) |->
                         IF g[i].impressions > 0
                         THEN (g[i].clicks * 1000) \div g[i].impressions ELSE 0])
    IN [campaign_name |-> key.campaign_name,
        impressions |-> impressions, clicks |-> clicks, spend |-> spend,
        sales |-> sales, orders |-> orders,
        ctr |-> Ratio(num, 1000 * Len(g)),
        avg_cpc |-> IF clicks > 0 THEN Ratio(spend, clicks) ELSE Zero,
        acos |-> IF sales > 0 THEN Ratio(spend, sales) ELSE None,
        roas |-> IF spend > 0 THEN Ratio(sales, spend) ELSE None]

CampaignAggregate(key, g) ==
    LET impressions == ColSum(g, "impressions")
        clicks == ColSum(g, "clicks")
        spend == ColSum(g, "spend")
        sales == ColSum(g, "sales")
        orders == ColSum(g, "orders")
    IN [campaign_name |-> key.campaign_name,
        impressions |-> impressions, clicks |-> clicks, spend |-> spend,
        sales |-> sales, orders |-> orders,
        ctr |-> IF impressions > 0 THEN Ratio(clicks, impressions) ELSE Zero,
        avg_cpc |-> IF clicks > 0 THEN Ratio(spend, clicks) ELSE Zero,
        acos |-> IF sales > 0 THEN Ratio(spend, sales) ELSE None,
        roas |-> IF spend > 0 THEN Ratio(sales, spend) ELSE None]

\* raises KeyError when the table has no campaign_name column
SummaryRaises(df) == "campaign_name" \notin df.cols

\* the outcome of a call that raised
Raised == [raised |-> TRUE]

\* wow_metrics, by the name of their delta column
DeltaMetric ==
    [impressions_delta |-> "impressions", clicks_delta |-> "clicks",
     spend_delta |-> "spend", orders_delta |-> "orders",
     ctr_delta |-> "ctr", acos_delta |-> "acos"]

\* a metric of a campaign row as a float: counts and money are n/1, ctr and
\* acos are ratios, an undefined acos is None
MetricValue(r, m) == IF m \in {"ctr", "acos"} THEN r[m] ELSE Ratio(r[m], 1)

\* p - q of two floats; undefined when either is
RatioSub(p, q) ==
    IF p = None \/ q = None THEN None
    ELSE Ratio(p.num * q.den - q.num * p.den, p.den * q.den)

\* the delta with the operands exchanged
WowDeltaReversed(r, prior_rows, m) ==
    LET same == {i \in 1..Len(prior_rows) : prior_rows[i].campaign_name = r.campaign_name}
    IN IF same = {} THEN None
       ELSE RatioSub(MetricValue(prior_rows[CHOOSE i \in same : TRUE], m), MetricValue(r, m))

\* current[metric] - prior[metric], aligned on campaign_name: undefined for a
\* campaign the prior table does not have
WowDelta(r, prior_rows, m) ==
    LET same == {i \in 1..Len(prior_rows) : prior_rows[i].campaign_name = r.campaign_name}
    IN IF same = {} THEN None
       ELSE RatioSub(MetricValue(r, m), MetricValue(prior_rows[CHOOSE i \in same : TRUE], m))

generate_campaign_summary(df, prior) ==
    LET by == <<"campaign_name">>
        keys == SortedKeys({Project(df.rows[i], {"campaign_name"}) :
                              i \in 1..Len(df.rows)}, by)
        grouped == [k \in 1..Len(keys) |->
                      CampaignAggregate(keys[k], GroupRows(df.rows, keys[k]))]
    IN IF prior # None /\ ~DfEmpty(prior)
       THEN LET deltas == {c \in DOMAIN DeltaMetric : DeltaMetric[c] \in prior.cols}
            IN [table |->
                   [cols |-> SummaryCols \cup deltas,
                    rows |-> [k \in 1..Len(grouped) |->
                                [c \in SummaryCols \cup deltas |->
                                    IF c \in SummaryCols THEN grouped[k][c]
                                    ELSE WowDelta(grouped[k], prior.rows, DeltaMetric[c])]]],
                wow_available |-> TRUE]
       ELSE [table |-> [cols |-> SummaryCols, rows |-> grouped],
             wow_available |-> FALSE]

(***************************************************************************)
(* Configuration lookups shared by the analysis modules.                   *)
(***************************************************************************)
\* dict.get(key, default)
Get(d, k, default) == IF k \in DOMAIN d THEN d[k] ELSE default

DefaultHighSpendFlag == 500

DefaultLowImpressionsFlag == 10

DefaultBlendedRoyalty == 500

DefaultTargetAcos == Ratio(1, 2)

\* 0.50 dollars, in cents
BroadSpendThreshold == 50

\* names of the configured campaigns of one type
CampaignNames(cfg, type) ==
    {cfg.campaigns[i].name :
        i \in {j \in 1..Len(cfg.campaigns) : cfg.campaigns[j].type = type}}

\* the targets of the product_targeting campaigns, in configuration order
RECURSIVE ProductTargets(_)
ProductTargets(campaigns) ==
    IF campaigns = <<>> THEN <<>>
    ELSE (IF Head(campaigns).type = "product_targeting"
          THEN [i \in 1..Len(Head(campaigns).targets) |->
                   [asin |-> Head(campaigns).targets[i].asin,
                    title |-> Head(campaigns).targets[i].title,
                    config_bid |-> Head(campaigns).targets[i].bid,
                    campaign_key |-> Head(campaigns).key]]
          ELSE <<>>)
         \o ProductTargets(Tail(campaigns))

\* target_lookup: its keys in insertion order, and the entry of a key (the
\* last target configured with that ASIN)
LookupKeys(ts) ==
    LET first == SortedInts({i \in 1..Len(ts) : \A j \in 1..(i - 1) : ts[j].asin # ts[i].asin})
    IN [k \in 1..Len(first) |-> ts[first[k]].asin]

LookupInfo(ts, asin) ==
    LET at == {i \in 1..Len(ts) : ts[i].asin = asin}
    IN IF at = {} THEN None
       ELSE ts[CHOOSE i \in at : \A j \in at : j <= i]

\* orders / clicks, 0 without clicks
ConversionRate(r) == IF r.clicks > 0 THEN Ratio(r.orders, r.clicks) ELSE Zero

RemoveAt(s, i) == SubSeq(s, 1, i - 1) \o SubSeq(s, i + 1, Len(s))

\* rows in ascending order of a column
RECURSIVE SortAscending(_, _)
SortAscending(rows, col) ==
    IF rows = <<>> THEN <<>>
    ELSE LET i == CHOOSE i \in 1..Len(rows) :
                     /\ \A j \in 1..Len(rows) : rows[j][col] >= rows[i][col]
                     /\ \A j \in 1..(i - 1) : rows[j][col] > rows[i][col]
         IN <<rows[i]>> \o SortAscending(RemoveAt(rows, i), col)

\* DataFrame.sort_values(col, ascending=False): rows in descending order of a
\* column, equal values in their previous order
RECURSIVE sort_values(_, _)
sort_values(rows, col) ==
    IF rows = <<>> THEN <<>>
    ELSE LET i == CHOOSE i \in 1..Len(rows) :
                     /\ \A j \in 1..Len(rows) : rows[j][col] <= rows[i][col]
                     /\ \A j \in 1..(i - 1) : rows[j][col] < rows[i][col]
         IN <<rows[i]>> \o sort_values(RemoveAt(rows, i), col)

RECURSIVE Flatten(_)
Flatten(ss) == IF ss = <<>> THEN <<>> ELSE Head(ss) \o Flatten(Tail(ss))

(***************************************************************************)
(* ASIN performance (src/analysis/asin_performance.py).                    *)
(***************************************************************************)
\* spend >= threshold
HighSpendNoOrdersInclusive(r, threshold) == r.spend >= threshold /\ r.orders = 0

HighSpendNoOrders(r, threshold) == r.spend > threshold /\ r.orders = 0

Underserving(r, threshold) == r.impressions < threshold

AsinRowFlags(r, high, low) ==
    LET title == IF r.target_title = "" THEN r.targeting ELSE r.target_title
    IN (IF HighSpendNoOrders(r, high)
        THEN <<[type |-> "high_spend_no_orders", severity |-> "warning",
                target |-> r.targeting, title |-> title]>>
        ELSE <<>>)
       \o
       (IF Underserving(r, low)
        THEN <<[type |-> "underserving", severity |-> "info",
                target |-> r.targeting, title |-> title]>>
        ELSE <<>>)

analyze_asin_targets(targeting, cfg) ==
    LET settings == cfg.settings
        high_spend_threshold == Get(settings, "high_spend_flag", DefaultHighSpendFlag)
        low_impressions_threshold ==
            Get(settings, "low_impressions_flag", DefaultLowImpressionsFlag)
        asin_campaigns == CampaignNames(cfg, "product_targeting")
        target_lookup == ProductTargets(cfg.campaigns)
        early == DfEmpty(targeting) \/ "campaign_name" \notin targeting.cols
        kept == IF early THEN <<>>
                ELSE SelectSeq(targeting.rows, LAMBDA r : r.campaign_name \in asin_campaigns)
        cols == targeting.cols \cup {"target_title", "config_bid", "conversion_rate"}
        Enrich(r) ==
            LET info == LookupInfo(target_lookup, r.targeting)
            IN [c \in cols |->
                  CASE c = "target_title" -> IF info = None THEN "" ELSE info.title
                    [] c = "config_bid" -> IF info = None THEN None ELSE info.config_bid
                    [] c = "conversion_rate" -> ConversionRate(r)
                    [] OTHER -> r[c]]
        rows == sort_values([i \in 1..Len(kept) |-> Enrich(kept[i])], "spend")
        active_asins == {rows[i].targeting : i \in 1..Len(rows)}
        zero == SelectSeq(LookupKeys(target_lookup), LAMBDA a : a \notin active_asins)
        ZeroInfo(a) == LookupInfo(target_lookup, a)
    IN IF early
       THEN [table |-> EmptyDf, flags |-> <<>>, zero_activity_targets |-> <<>>]
       ELSE [table |-> IF kept = <<>> THEN [cols |-> targeting.cols, rows |-> <<>>]
                       ELSE [cols |-> cols, rows |-> rows],
             flags |->
                 Flatten([i \in 1..Len(rows) |->
                            AsinRowFlags(rows[i], high_spend_threshold,
                                         low_impressions_threshold)])
                 \o [k \in 1..Len(zero) |->
                       [type |-> "zero_activity", severity |-> "info", target |-> zero[k],
                        title |-> IF ZeroInfo(zero[k]).title = "" THEN zero[k]
                                  ELSE ZeroInfo(zero[k]).title]],
             zero_activity_targets |->
                 [k \in 1..Len(zero) |->
                    [asin |-> zero[k], title |-> ZeroInfo(zero[k]).title,
                     bid |-> ZeroInfo(zero[k]).config_bid]]]

(***************************************************************************)
(* Keyword performance (src/analysis/keyword_performance.py).              *)
(***************************************************************************)
ZeroImpressions(r) == r.impressions = 0

KeywordRowFlags(r, high) ==
    (IF ZeroImpressions(r)
     THEN <<[type |-> "zero_impressions", severity |-> "info", target |-> r.targeting]>>
     ELSE <<>>)
    \o
    (IF HighSpendNoOrders(r, high)
     THEN <<[type |-> "high_spend_no_orders", severity |-> "warning",
             target |-> r.targeting]>>
     ELSE <<>>)

analyze_keywords(targeting, cfg) ==
    IF DfEmpty(targeting) \/ "campaign_name" \notin targeting.cols
    THEN [table |-> EmptyDf, flags |-> <<>>]
    ELSE LET high_spend_threshold ==
                 Get(cfg.settings, "high_spend_flag", DefaultHighSpendFlag)
             kw_campaigns == CampaignNames(cfg, "keyword_targeting")
             kept == SelectSeq(targeting.rows, LAMBDA r : r.campaign_name \in kw_campaigns)
             cols == targeting.cols \cup {"conversion_rate"}
             rows == sort_values(
                         [i \in 1..Len(kept) |->
                            [c \in cols |-> IF c = "conversion_rate"
                                            THEN ConversionRate(kept[i])
                                            ELSE kept[i][c]]],
                         "impressions")
         IN IF kept = <<>>
            THEN [table |-> EmptyDf, flags |-> <<>>]
            ELSE [table |-> [cols |-> cols, rows |-> rows],
                  flags |-> Flatten([i \in 1..Len(rows) |->
                                       KeywordRowFlags(rows[i], high_spend_threshold)])]

(***************************************************************************)
(* Bid recommendations (src/analysis/bid_recommendations.py).  A bid and   *)
(* the maximum profitable bid are floats in cents; a missing bid (None or  *)
(* NaN) is None.                                                           *)
(***************************************************************************)
\* blended_royalty * cr / target_acos when cr > 0, else undefined
MaxProfitableBid(cr, blended_royalty, target_acos) ==
    IF cr.num > 0
    THEN Ratio(blended_royalty * cr.num * target_acos.den, cr.den * target_acos.num)
    ELSE None

\* current_bid > max_bid and current_bid < max_bid * 0.5
BidAbove(bid, max) == bid.num * max.den > max.num * bid.den

\* current_bid <= max_bid * 0.5
BidBelowHalfInclusive(bid, max) == 2 * bid.num * max.den <= max.num * bid.den

BidBelowHalf(bid, max) == 2 * bid.num * max.den < max.num * bid.den

\* the flag of one row ("" for none), in the order the loop body decides it
BidFlagType(r, current_bid, max_bid) ==
    IF r.clicks = 0 THEN (IF r.impressions = 0 THEN "no_data" ELSE "")
    ELSE IF r.orders = 0 THEN "no_conversions"
    ELSE IF current_bid # None /\ max_bid # None
         THEN IF BidAbove(current_bid, max_bid) THEN "bid_above_profitable"
              ELSE IF BidBelowHalf(current_bid, max_bid) THEN "bid_below_range"
              ELSE ""
         ELSE ""

BidFlagSeverity(type) == IF type = "bid_above_profitable" THEN "warning" ELSE "info"

BidTableCols == {"campaign_name", "targeting", "impressions", "clicks", "orders",
                 "spend", "conversion_rate"}

recommend_bids(targeting, cfg) ==
    LET settings == cfg.settings
        configured_acos == Get(settings, "target_acos", DefaultTargetAcos)
        target_acos == IF configured_acos.num <= 0 THEN DefaultTargetAcos ELSE configured_acos
        blended_royalty == Get(settings, "blended_royalty", DefaultBlendedRoyalty)
        has_bid == "bid" \in targeting.cols
        CurrentBid(r) == IF has_bid THEN r.bid ELSE None
        MaxBid(r) == MaxProfitableBid(ConversionRate(r), blended_royalty, target_acos)
        cols == BidTableCols \cup (IF has_bid THEN {"current_bid"} ELSE {})
                    \cup {"max_profitable_bid"}
        Rec(r) == [c \in cols |->
                     CASE c = "conversion_rate" -> ConversionRate(r)
                       [] c = "current_bid" -> r.bid
                       [] c = "max_profitable_bid" -> MaxBid(r)
                       [] OTHER -> r[c]]
        RowFlag(r) ==
            LET type == BidFlagType(r, CurrentBid(r), MaxBid(r))
            IN IF type = "" THEN <<>>
               ELSE <<[type |-> type, severity |-> BidFlagSeverity(type),
                       target |-> r.targeting, campaign |-> r.campaign_name,
                       current_bid |-> CurrentBid(r),
                       recommended_bid |-> IF type \in {"no_data", "no_conversions"}
                                           THEN None ELSE MaxBid(r)]>>
    IN IF DfEmpty(targeting)
       THEN [table |-> EmptyDf, flags |-> <<>>]
       ELSE [table |-> [cols |-> cols,
                        rows |-> sort_values([i \in 1..Len(targeting.rows) |->
                                                 Rec(targeting.rows[i])], "spend")],
             flags |-> Flatten([i \in 1..Len(targeting.rows) |->
                                  RowFlag(targeting.rows[i])])]

(***************************************************************************)
(* Search-term drift (src/analysis/search_terms.py).                       *)
(***************************************************************************)
\* targeting != search_term, letter case ignored
ExactDriftAnyCase(match_type, targeting, search_term) ==
    match_type = "exact" /\ Lower(targeting) # Lower(search_term)

\* the exact-match test of the loop, on the stripped values
ExactDrift(match_type, targeting, search_term) ==
    match_type = "exact" /\ targeting # search_term

\* the broad-match test of the loop
BroadExpansion(match_type, targeting, search_term, spend) ==
    /\ match_type = "broad"
    /\ ~Contains(Lower(targeting), Lower(search_term))
    /\ spend > BroadSpendThreshold

DriftRowFlags(r) ==
    LET targeting == Strip(r.targeting)
        search_term == Strip(r.search_term)
        match_type == Lower(Strip(r.match_type))
        Flag(type, severity, message) ==
            [type |-> type, severity |-> severity, campaign |-> r.campaign_name,
             targeting |-> targeting, search_term |-> search_term,
             impressions |-> r.impressions, spend |-> r.spend, message |-> message]
    IN (IF ExactDrift(match_type, targeting, search_term)
        THEN <<Flag("exact_match_drift", "warning",
                    [text |-> "Exact match drift", targeting |-> targeting,
                     search_term |-> search_term, impressions |-> r.impressions,
                     spend |-> r.spend])>>
        ELSE <<>>)
       \o
       (IF BroadExpansion(match_type, targeting, search_term, r.spend)
        THEN <<Flag("broad_match_expansion", "info",
                    [text |-> "Broad match expanded", targeting |-> targeting,
                     search_term |-> search_term, spend |-> r.spend])>>
        ELSE <<>>)

SearchSummaryCols == {"search_term", "impressions", "clicks", "spend", "orders"}

SearchTermSummary(key, g) ==
    [search_term |-> key.search_term,
     impressions |-> ColSum(g, "impressions"), clicks |-> ColSum(g, "clicks"),
     spend |-> ColSum(g, "spend"), orders |-> ColSum(g, "orders")]

analyze_search_terms(df, cfg) ==
    IF DfEmpty(df)
    THEN [grouped |-> <<>>, drift_flags |-> <<>>, summary |-> EmptyDf]
    ELSE LET targets == {df.rows[i].targeting : i \in 1..Len(df.rows)}
             keys == SortedKeys({Project(df.rows[i], {"search_term"}) :
                                   i \in 1..Len(df.rows)}, <<"search_term">>)
             transition_date == Get(cfg.settings, "exact_match_transition_date", None)
         IN [grouped |->
                [t \in targets |->
                    sort_values(SelectSeq(df.rows, LAMBDA r : r.targeting = t),
                                "impressions")],
             drift_flags |-> Flatten([i \in 1..Len(df.rows) |-> DriftRowFlags(df.rows[i])]),
             summary |->
                [cols |-> SearchSummaryCols,
                 rows |-> sort_values([k \in 1..Len(keys) |->
                                          SearchTermSummary(keys[k],
                                                            GroupRows(df.rows, keys[k]))],
                                      "spend")],
             transition_note |-> transition_date]

(***************************************************************************)
(* ASIN resolution (src/utils/asin_resolver.py and apply_asin_resolution). *)
(* B0AAA, B0BBB, B0ZZZ and b0aaa stand for ten-character ASINs.            *)
(***************************************************************************)
is_asin(term) == Strip(term) \in {"B0AAA", "B0BBB", "B0ZZZ", "b0aaa"}

\* f"{title} ({term})"
TitledName(term) ==
    CASE term = "B0AAA" -> "Descent (B0AAA)"
      [] term = "b0aaa" -> "Descent (b0aaa)"
      [] term = "B0BBB" -> "Ascension (B0BBB)"
      [] term = "B0ZZZ" -> "Nemesis (B0ZZZ)"

\* f"{asin} (unknown)"
UnknownName(term) ==
    CASE term = "B0AAA" -> "B0AAA (unknown)"
      [] term = "b0aaa" -> "b0aaa (unknown)"
      [] term = "B0BBB" -> "B0BBB (unknown)"
      [] term = "B0ZZZ" -> "B0ZZZ (unknown)"

\* titled: the lower-case ASINs found in the lookup file or scraped
resolve_asins(terms, titled) ==
    [t \in {x \in terms : is_asin(x)} |->
        IF Lower(Strip(t)) \in titled THEN TitledName(t) ELSE UnknownName(t)]

\* flag['type'].replace('_', ' ').title()
TitleCase(type) ==
    CASE type = "exact_match_drift" -> "Exact Match Drift"
      [] type = "broad_match_expansion" -> "Broad Match Expansion"

\* the loop body with the severity lowered as well
ResolveFlagLowered(flag, asin_map) ==
    [flag EXCEPT !.severity = "info"]

\* the loop body of apply_asin_resolution for one drift flag
ResolveFlag(flag, asin_map) ==
    LET st == flag.search_term
        tgt == flag.targeting
        st_display == Get(asin_map, st, st)
        tgt_display == Get(asin_map, tgt, tgt)
    IN IF st_display # st \/ tgt_display # tgt
       THEN [flag EXCEPT !.message =
                [text |-> TitleCase(flag.type), targeting |-> tgt_display,
                 search_term |-> st_display, impressions |-> flag.impressions,
                 spend |-> flag.spend]]
       ELSE flag

apply_asin_resolution(result, asin_map) ==
    IF DOMAIN asin_map = {}
    THEN result
    ELSE LET summary == result.summary
         IN [result EXCEPT
                !.summary =
                    IF ~DfEmpty(summary) /\ "search_term" \in summary.cols
                    THEN [cols |-> summary.cols,
                          rows |-> [i \in 1..Len(summary.rows) |->
                                      [summary.rows[i] EXCEPT
                                          !.search_term = Get(asin_map, @, @)]]]
                    ELSE summary,
                !.drift_flags =
                    [k \in 1..Len(result.drift_flags) |->
                        ResolveFlag(result.drift_flags[k], asin_map)]]


(***************************************************************************)
(* Export files and their cells (src/ingest).  A CSV file is a sequence of *)
(* lines, a line a sequence of field texts.  A cell read by pandas is a    *)
(* string [str], a float [num] counted in hundredths, or NaN (None).       *)
(***************************************************************************)
Str(s) == [str |-> s]

Num(h) == [num |-> h]

NaN == None

Error(name) == [error |-> name]

IsError(x) == "error" \in DOMAIN x

\* the texts that read as a plain number, with their value in hundredths
PlainNumbers ==
    {<<"0", 0>>, <<"3", 300>>, <<"40", 4000>>, <<"1000", 100000>>, <<"0.72", 72>>,
     <<"3.49", 349>>, <<"1200.00", 120000>>, <<"2.50", 250>>}

IsPlainNumber(text) == \E p \in PlainNumbers : p[1] = text

NumberOf(text) == (CHOOSE p \in PlainNumbers : p[1] = text)[2]

\* str(x) of a float cell
TextOf(h) == (CHOOSE p \in PlainNumbers : p[2] = h)[1]

\* float(text): a plain number, "nan", or ValueError
Float(text) ==
    IF IsPlainNumber(text) THEN Num(NumberOf(text))
    ELSE IF text = "nan" THEN NaN
    ELSE Error("ValueError")

\* str.replace(ch, "", regex=False) on the texts of the model
Remove(text, ch) ==
    CASE ch = "$" /\ text = "$0.72" -> "0.72"
      [] ch = "$" /\ text = "$abc" -> "abc"
      [] ch = "$" /\ text = "$" -> ""
      [] ch = "," /\ text = "1,200.00" -> "1200.00"
      [] ch = "%" /\ text = "2.50%" -> "2.50"
      [] ch = "%" /\ text = "n/a%" -> "n/a"
      [] OTHER -> text

\* series.astype(str) of one cell
AsText(cell) ==
    IF cell = NaN THEN "nan"
    ELSE IF "num" \in DOMAIN cell THEN TextOf(cell.num)
    ELSE cell.str

\* pd.to_numeric(errors="coerce") of one cell
ToNumericCoerce(cell) ==
    IF cell = NaN THEN NaN
    ELSE IF "num" \in DOMAIN cell THEN cell
    ELSE IF IsPlainNumber(Strip(cell.str)) THEN Num(NumberOf(Strip(cell.str)))
    ELSE NaN

fillna(cell, value) == IF cell = NaN THEN Num(value) ELSE cell

\* astype(int) of a float cell
AsInt(cell) == cell.num \div 100

\* df[col].dtype == object: some cell of the column is a string
IsObject(rows, col) == \E i \in 1..Len(rows) : "str" \in DOMAIN rows[i][col]

\* a cleaning function applied to every cell of a column; the first error
\* raised by a cell is the result
ApplyToColumn(rows, col, Clean(_)) ==
    IF \E i \in 1..Len(rows) : IsError(Clean(rows[i][col]))
    THEN Clean(rows[CHOOSE i \in 1..Len(rows) : IsError(Clean(rows[i][col]))][col])
    ELSE [rows |-> [i \in 1..Len(rows) |-> [rows[i] EXCEPT ![col] = Clean(@)]]]

\* one cleaning step on one column of a table, skipped when the column is
\* missing, when it is only for object columns and the column is numeric, or
\* when an earlier step raised
CleanColumn(df, col, onlyObject, Clean(_)) ==
    IF IsError(df) THEN df
    ELSE IF col \notin df.cols \/ (onlyObject /\ ~IsObject(df.rows, col)) THEN df
    ELSE LET cleaned == ApplyToColumn(df.rows, col, Clean)
         IN IF IsError(cleaned) THEN cleaned ELSE [cols |-> df.cols, rows |-> cleaned.rows]

(***************************************************************************)
(* Flat CSV exports: header detection and pd.read_csv.                     *)
(***************************************************************************)
CSV_HEADER_MARKER == "Campaign Name"

\* max_rows of _find_header_row and the literal 10 of _load_csv
HeaderLookahead == 10

\* marker in field, on the texts of the model
FieldContains(field, marker) ==
    field = marker \/ <<field, marker>> \in {<<"Campaign Name report", "Campaign Name">>,
                                            <<"Book Title", "Title">>}

\* marker in line
LineContains(line, marker) == \E k \in 1..Len(line) : FieldContains(line[k], marker)

\* the 0-based index of the first of the first max_rows lines that contains
\* the marker; 0 when none does
_find_header_row(lines, max_rows) ==
    LET hits == {i \in 0..(Len(lines) - 1) :
                    i < max_rows /\ LineContains(lines[i + 1], CSV_HEADER_MARKER)}
    IN IF hits = {} THEN 0 ELSE CHOOSE i \in hits : \A j \in hits : i <= j

\* the cell pandas reads from one field of a column
ReadCell(text, object) ==
    IF text = "" THEN NaN
    ELSE IF object THEN Str(text)
    ELSE Num(NumberOf(text))

\* pd.read_csv(filepath, skiprows=header_row): the first line left is the
\* header; a later line with more fields than the header raises ParserError,
\* a missing field reads as NaN
read_csv(lines, header_row) ==
    IF Len(lines) <= header_row
    THEN Error("EmptyDataError")
    ELSE LET header == lines[header_row + 1]
             data == SubSeq(lines, header_row + 2, Len(lines))
             Field(i, k) == IF k <= Len(data[i]) THEN data[i][k] ELSE ""
             Object(k) == \E i \in 1..Len(data) :
                              Field(i, k) # "" /\ ~IsPlainNumber(Field(i, k))
         IN IF \E i \in 1..Len(data) : Len(data[i]) > Len(header)
            THEN Error("ParserError")
            ELSE [cols |-> {header[k] : k \in 1..Len(header)},
                  rows |-> [i \in 1..Len(data) |->
                              [c \in {header[k] : k \in 1..Len(header)} |->
                                  LET k == CHOOSE j \in 1..Len(header) : header[j] = c
                                  IN ReadCell(Field(i, k), Object(k))]]]

\* df.rename(columns=rename_map) with the columns of col_map that exist
Rename(df, col_map) ==
    LET New(c) == IF c \in DOMAIN col_map THEN col_map[c] ELSE c
        Old(n) == CHOOSE c \in df.cols : New(c) = n
    IN [cols |-> {New(c) : c \in df.cols},
        rows |-> [i \in 1..Len(df.rows) |->
                    [n \in {New(c) : c \in df.cols} |-> df.rows[i][Old(n)]]]]

(***************************************************************************)
(* Search-term exports (src/ingest/search_terms.py).                       *)
(***************************************************************************)
COLUMN_MAP ==
    [c \in {"Campaign Name", "Targeting", "Impressions", "Spend", "Click-Thru Rate (CTR)"} |->
        CASE c = "Campaign Name" -> "campaign_name"
          [] c = "Targeting" -> "targeting"
          [] c = "Impressions" -> "impressions"
          [] c = "Spend" -> "spend"
          [] c = "Click-Thru Rate (CTR)" -> "ctr"]

\* '2.50%' -> 0.025, in ten-thousandths
_clean_percentage(cell) ==
    LET text == Strip(Remove(AsText(cell), "%"))
        value == Float(IF text = "" THEN "0" ELSE text)
    IN IF IsError(value) \/ value = NaN THEN value ELSE [pct |-> value.num]

\* '$0.72' -> 0.72
_clean_currency(cell) ==
    LET text == Strip(Remove(Remove(AsText(cell), "$"), ","))
    IN Float(IF text = "" THEN "0" ELSE text)

\* strip the asin="..." wrapper
_normalize_targeting(cell) ==
    LET text == AsText(cell)
    IN Str(CASE text = "asin=\"B0AAA\"" -> "B0AAA"
             [] text = "asin-expanded=\"B0AAA\"" -> "B0AAA"
             [] OTHER -> Strip(text))

\* the cleaning steps of load_search_term_report on a table just read
NormalizeSearchTerms(read) ==
    LET df0 == Rename(read, COLUMN_MAP)
        df1 == CleanColumn(df0, "ctr", TRUE, _clean_percentage)
        df2 == CleanColumn(df1, "spend", TRUE, _clean_currency)
        df3 == CleanColumn(df2, "impressions", FALSE,
                           LAMBDA c : Num(100 * AsInt(fillna(ToNumericCoerce(c), 0))))
        df4 == CleanColumn(df3, "spend", FALSE, LAMBDA c : fillna(ToNumericCoerce(c), 0))
    IN IF IsError(df4) \/ "targeting" \notin df4.cols THEN df4
       ELSE [cols |-> df4.cols \cup {"targeting_raw"},
             rows |-> [i \in 1..Len(df4.rows) |->
                         [c \in df4.cols \cup {"targeting_raw"} |->
                             IF c = "targeting_raw" THEN df4.rows[i].targeting
                             ELSE IF c = "targeting"
                                  THEN _normalize_targeting(df4.rows[i].targeting)
                                  ELSE df4.rows[i][c]]]]

\* the CSV branch of load_search_term_report
load_search_term_report(lines) ==
    LET header_row == _find_header_row(lines, HeaderLookahead)
        read == read_csv(lines, header_row)
    IN [header_row |-> header_row,
        df |-> IF IsError(read) THEN read ELSE NormalizeSearchTerms(read)]

(***************************************************************************)
(* KDP exports (src/ingest/kdp.py).                                        *)
(***************************************************************************)
\* a marketplace name split at its dots
MarketplaceParts(text) ==
    CASE text = "Amazon.com" -> <<"Amazon", "com">>
      [] text = "Amazon.com.mx" -> <<"Amazon", "com", "mx">>
      [] text = "Amazon.com.au" -> <<"Amazon", "com", "au">>
      [] text = "Amazon.co.uk" -> <<"Amazon", "co", "uk">>
      [] text = "Amazon.de" -> <<"Amazon", "de">>

IsInfix(a, b) == \E i \in 1..(Len(b) - Len(a) + 1) : SubSeq(b, i, i + Len(a) - 1) = a

\* str.contains("Amazon.com", na=False): the pattern is searched anywhere in
\* the name, a missing name does not match
MarketplaceContains(cell) ==
    cell # NaN /\ IsInfix(MarketplaceParts("Amazon.com"), MarketplaceParts(cell.str))

\* df[df["marketplace"].str.contains("Amazon.com", na=False)]
\* the .str accessor raises on a non-empty column without any string
FilterMarketplace(df) ==
    IF "marketplace" \notin df.cols THEN df
    ELSE IF Len(df.rows) > 0 /\ ~IsObject(df.rows, "marketplace") THEN Error("AttributeError")
    ELSE [cols |-> df.cols,
          rows |-> SelectSeq(df.rows, LAMBDA r : MarketplaceContains(r.marketplace))]

\* _clean_currency of kdp.py: "nan" reads as 0 as well
kdp_clean_currency(cell) ==
    LET text == Strip(Remove(Remove(AsText(cell), "$"), ","))
    IN Float(IF text \in {"", "nan"} THEN "0" ELSE text)

\* pd.to_datetime(errors="coerce") of one cell: a date or NaT
ToDatetimeCoerce(cell) ==
    IF cell = NaN THEN [date |-> NaT]
    ELSE IF "date" \in DOMAIN cell THEN cell
    ELSE IF cell.str = "2024-01-03" THEN [date |-> 20240103]
    ELSE [date |-> NaT]

\* df[col] = value
SetColumn(df, col, value) ==
    [cols |-> df.cols \cup {col},
     rows |-> [i \in 1..Len(df.rows) |->
                 [c \in df.cols \cup {col} |-> IF c = col THEN value ELSE df.rows[i][c]]]]

RoyaltyColMap ==
    [c \in {"Royalty Date", "Title", "Marketplace", "Net Units Sold", "Royalty"} |->
        CASE c = "Royalty Date" -> "date"
          [] c = "Title" -> "title"
          [] c = "Marketplace" -> "marketplace"
          [] c = "Net Units Sold" -> "net_units_sold"
          [] c = "Royalty" -> "royalty"]

_normalize_royalty_sheet(sheet, book_format) ==
    LET df0 == SetColumn(Rename(sheet, RoyaltyColMap), "format", Str(book_format))
        df1 == CleanColumn(df0, "date", FALSE, ToDatetimeCoerce)
        df2 == CleanColumn(df1, "net_units_sold", FALSE,
                           LAMBDA c : Num(100 * AsInt(fillna(ToNumericCoerce(c), 0))))
    IN IF "royalty" \in df2.cols /\ IsObject(df2.rows, "royalty")
       THEN CleanColumn(df2, "royalty", FALSE, kdp_clean_currency)
       ELSE CleanColumn(df2, "royalty", FALSE, LAMBDA c : fillna(ToNumericCoerce(c), 0))

\* pd.concat(frames, ignore_index=True) of tables with the same columns
ConcatFramesOf(frames) ==
    [cols |-> UNION {frames[i].cols : i \in 1..Len(frames)},
     rows |-> Flatten([i \in 1..Len(frames) |-> frames[i].rows])]

\* the royalty sheets of the workbook, normalized, in the order read
RoyaltyFrames(sheets) ==
    (IF "eBook Royalty" \in DOMAIN sheets
     THEN <<_normalize_royalty_sheet(sheets["eBook Royalty"], "ebook")>> ELSE <<>>)
    \o (IF "Paperback Royalty" \in DOMAIN sheets
        THEN <<_normalize_royalty_sheet(sheets["Paperback Royalty"], "paperback")>>
        ELSE <<>>)
    \o (IF "Hardcover Royalty" \in DOMAIN sheets /\ ~DfEmpty(sheets["Hardcover Royalty"])
        THEN <<_normalize_royalty_sheet(sheets["Hardcover Royalty"], "hardcover")>>
        ELSE <<>>)

_load_xlsx_workbook(sheets) ==
    LET frames == RoyaltyFrames(sheets)
    IN IF \E i \in 1..Len(frames) : IsError(frames[i])
       THEN frames[CHOOSE i \in 1..Len(frames) : IsError(frames[i])]
       ELSE IF frames = <<>> THEN EmptyDf
       ELSE FilterMarketplace(ConcatFramesOf(frames))

OrdersColMap ==
    [c \in {"Date", "Title", "ASIN", "Marketplace", "Paid Units"} |->
        CASE c = "Date" -> "date"
          [] c = "Title" -> "title"
          [] c = "ASIN" -> "asin"
          [] c = "Marketplace" -> "marketplace"
          [] c = "Paid Units" -> "paid_units"]

\* one order sheet: renamed, tagged with its format, dated and filtered
OrdersFrame(sheet, book_format) ==
    FilterMarketplace(
        CleanColumn(SetColumn(Rename(sheet, OrdersColMap), "format", Str(book_format)),
                    "date", FALSE, ToDatetimeCoerce))

load_kdp_orders(file) ==
    IF file.kind # "kdp_xlsx"
    THEN EmptyDf
    ELSE LET sheets == file.sheets
             frames ==
                (IF "eBook Orders Placed" \in DOMAIN sheets
                 THEN <<OrdersFrame(sheets["eBook Orders Placed"], "ebook")>> ELSE <<>>)
                \o (IF "Orders Processed" \in DOMAIN sheets
                    THEN <<OrdersFrame(sheets["Orders Processed"], "paperback")>> ELSE <<>>)
         IN IF \E i \in 1..Len(frames) : IsError(frames[i])
            THEN frames[CHOOSE i \in 1..Len(frames) : IsError(frames[i])]
            ELSE IF frames = <<>> THEN EmptyDf
            ELSE ConcatFramesOf(frames)

CsvColMap ==
    [c \in {"Date", "Title", "Marketplace", "Net Units Sold", "Royalty"} |->
        CASE c = "Date" -> "date"
          [] c = "Title" -> "title"
          [] c = "Marketplace" -> "marketplace"
          [] c = "Net Units Sold" -> "net_units_sold"
          [] c = "Royalty" -> "royalty"]

\* line.strip().startswith("Date") and "Title" in line
IsKdpHeader(line) ==
    /\ Len(line) > 0
    /\ Head(line) \in {"Date", "Date range"}
    /\ LineContains(line, "Title")

\* the header search of _load_csv: 0 when no line of the first 10 matches
KdpHeaderRow(lines) ==
    LET hits == {i \in 0..(Len(lines) - 1) : i < HeaderLookahead /\ IsKdpHeader(lines[i + 1])}
    IN IF hits = {} THEN 0 ELSE CHOOSE i \in hits : \A j \in hits : i <= j

_load_csv(lines) ==
    LET header_row == KdpHeaderRow(lines)
        read == read_csv(lines, header_row)
        df0 == IF IsError(read) THEN read ELSE Rename(read, CsvColMap)
        df1 == CleanColumn(df0, "date", FALSE, ToDatetimeCoerce)
        df2 == CleanColumn(df1, "royalty", TRUE, kdp_clean_currency)
        df3 == CleanColumn(df2, "net_units_sold", FALSE,
                           LAMBDA c : Num(100 * AsInt(fillna(ToNumericCoerce(c), 0))))
    IN [header_row |-> header_row,
        df |-> IF IsError(df3) THEN df3 ELSE FilterMarketplace(df3)]

load_kdp_report(file) ==
    IF file.kind = "kdp_xlsx"
    THEN [header_row |-> 0, df |-> _load_xlsx_workbook(file.sheets)]
    ELSE _load_csv(file.lines)

(***************************************************************************)
(* KDP reconciliation (src/analysis/kdp_reconciliation.py).                *)
(***************************************************************************)
\* keys and short titles of config["books"] that contain "book_1" / "Book 1",
\* "book_2" / "Book 2" as a substring
KeysWithBook1 == {"book_1"}

KeysWithBook2 == {"book_2"}

TitlesWithBook1 == {"Book 1: Descent"}

TitlesWithBook2 == {"Book 2: Ascension"}

BookAsins(book) == {book.asin_kindle, book.asin_paperback} \ {""}

IsBook1(book) == book.key \in KeysWithBook1 \/ book.short_title \in TitlesWithBook1

IsBook2(book) == book.key \in KeysWithBook2 \/ book.short_title \in TitlesWithBook2

Book1Asins(cfg) == UNION {BookAsins(b) : b \in {x \in cfg.books : IsBook1(x)}}

Book2Asins(cfg) ==
    UNION {BookAsins(b) : b \in {x \in cfg.books : ~IsBook1(x) /\ IsBook2(x)}}

\* Timestamp.dt.is_month_start
IsMonthStart(d) == DayOf(d) = 1

\* daily_mask: rows of the order table that are not dated the first of a month
IsDailyRow(r) == ~(DayOf(r.date) = 1 /\ IsMonthStart(r.date))

\* the rows paired purchases are looked for in: the non-first-of-month rows, or
\* every dated row when no row is dated otherwise
DailyOrderRows(rows) ==
    LET dated == SelectSeq(rows, LAMBDA r : r.date # NaT)
        any == \E i \in 1..Len(dated) : IsDailyRow(dated[i])
    IN IF any THEN SelectSeq(dated, IsDailyRow) ELSE dated

AsinsOnDate(rows, d) == {rows[i].asin : i \in {j \in 1..Len(rows) : rows[j].date = d}}

\* the (asin, title) pairs of a date's rows, each once, as "Book n: title" parts
DetailParts(rows, d, b1, b2) ==
    LET pairs == {<<rows[i].asin, rows[i].title>> :
                    i \in {j \in 1..Len(rows) : rows[j].date = d}}
    IN { [book |-> IF p[1] \in b1 THEN 1 ELSE 2, asin |-> p[1], title |-> p[2]] :
           p \in {q \in pairs : q[1] \in b1 \/ q[1] \in b2} }

RECURSIVE SortByDateStr(_)
SortByDateStr(S) ==
    IF S = {} THEN <<>>
    ELSE LET m == CHOOSE x \in S : \A y \in S : StrDateLeq(x.date, y.date)
         IN <<m>> \o SortByDateStr(S \ {m})

_detect_paired_purchases(orders, cfg) ==
    IF DfEmpty(orders) \/ cfg = None THEN <<>>
    ELSE LET b1 == Book1Asins(cfg)
             b2 == Book2Asins(cfg)
         IN IF b1 = {} \/ b2 = {} THEN <<>>
            ELSE IF ~({"date", "asin"} \subseteq orders.cols) THEN <<>>
            ELSE LET df == DailyOrderRows(orders.rows)
                     dates == {df[i].date : i \in 1..Len(df)}
                     paired == {d \in dates : /\ AsinsOnDate(df, d) \cap b1 # {}
                                              /\ AsinsOnDate(df, d) \cap b2 # {}}
                 IN SortByDateStr({[date |-> Strftime(d),
                                    details |-> DetailParts(df, d, b1, b2)] :
                                      d \in paired})

\* the units column of a KDP table
UnitsCol(df) == IF "net_units_sold" \in df.cols THEN "net_units_sold" ELSE "units_sold"

EstimateIsMonthlyAny(rows) ==
    LET dates == SelectSeq(rows, LAMBDA r : r.date # NaT)
    IN \E i \in 1..Len(dates) : DayOf(dates[i].date) = 1

\* granularity as _estimate_ad_influenced detects it
EstimateIsMonthly(rows) ==
    LET dates == SelectSeq(rows, LAMBDA r : r.date # NaT)
    IN Len(dates) > 0 /\ \A i \in 1..Len(dates) : DayOf(dates[i].date) = 1

IsPostAdStrict(r, ads_start, monthly) ==
    /\ r.date # NaT
    /\ IF monthly THEN PeriodM(r.date) > PeriodM(ads_start)
                  ELSE r.date > ads_start

\* a row's side of the ads-start date: NaT compares false, so it is pre-ad
IsPostAd(r, ads_start, monthly) ==
    /\ r.date # NaT
    /\ IF monthly THEN PeriodM(r.date) >= PeriodM(ads_start)
                  ELSE r.date >= ads_start

_estimate_ad_influenced(kdp, orders, cfg, total_ad_spend, total_ad_orders, total_ad_sales) ==
    IF cfg = None THEN None
    ELSE IF cfg.timeline.amazon_ads_start = <<>> THEN None
    ELSE LET ads_start == ToDatetime(cfg.timeline.amazon_ads_start)
             has == ~DfEmpty(kdp) /\ "date" \in kdp.cols
             units_col == UnitsCol(kdp)
             is_monthly == EstimateIsMonthly(kdp.rows)
             post_df == SelectSeq(kdp.rows, LAMBDA r : IsPostAd(r, ads_start, is_monthly))
             pre_df == SelectSeq(kdp.rows, LAMBDA r : ~IsPostAd(r, ads_start, is_monthly))
             post_ad_units == IF has /\ units_col \in kdp.cols
                              THEN ColSum(post_df, units_col) ELSE 0
             pre_ad_units == IF has /\ units_col \in kdp.cols
                             THEN ColSum(pre_df, units_col) ELSE 0
             post_ad_royalty == IF has /\ "royalty" \in kdp.cols
                                THEN ColSum(post_df, "royalty") ELSE 0
             pre_ad_royalty == IF has /\ "royalty" \in kdp.cols
                               THEN ColSum(pre_df, "royalty") ELSE 0
             orders_post == SelectSeq(orders.rows,
                                LAMBDA r : r.date # NaT /\ r.date >= ads_start)
             post_ad_ebook_units ==
                 IF ~DfEmpty(orders) /\ {"date", "paid_units"} \subseteq orders.cols
                 THEN ColSum(orders_post, "paid_units") ELSE 0
         IN [ads_start |-> cfg.timeline.amazon_ads_start,
             post_ad_units |-> post_ad_units,
             post_ad_royalty |-> post_ad_royalty,
             post_ad_ebook_daily_units |-> post_ad_ebook_units,
             pre_ad_units |-> pre_ad_units,
             pre_ad_royalty |-> pre_ad_royalty,
             ad_spend |-> total_ad_spend,
             ad_attributed_orders |-> total_ad_orders,
             ad_attributed_sales |-> total_ad_sales,
             attributed_roas |-> IF total_ad_spend > 0 /\ total_ad_sales > 0
                                 THEN Ratio(total_ad_sales, total_ad_spend) ELSE None,
             influenced_roas |-> IF total_ad_spend > 0 /\ post_ad_royalty > 0
                                 THEN Ratio(post_ad_royalty, total_ad_spend) ELSE None,
             note |-> IF has /\ EstimateIsMonthly(kdp.rows)
                      THEN <<"kdp_monthly", "ad_influenced">>
                      ELSE <<"ad_influenced">>]

\* granularity as reconcile_kdp_sales detects it
ReconIsMonthly(rows) ==
    LET dates == SelectSeq(rows, LAMBDA r : r.date # NaT)
    IN Len(dates) > 0 /\ \A i \in 1..Len(dates) : DayOf(dates[i].date) = 1

\* the rows reconcile_kdp_sales keeps for the week
InTargetMonths(r, start, end) ==
    r.date # NaT /\ PeriodM(r.date) \in {PeriodM(start), PeriodM(end)}

InWeekEndExclusive(r, start, end) == r.date # NaT /\ r.date >= start /\ r.date < end

InWeek(r, start, end) == r.date # NaT /\ r.date >= start /\ r.date <= end

WeekFilter(kdp, start, end) ==
    IF "date" \notin kdp.cols THEN kdp
    ELSE IF ReconIsMonthly(kdp.rows)
         THEN [kdp EXCEPT !.rows = SelectSeq(kdp.rows, LAMBDA r : InTargetMonths(r, start, end))]
         ELSE [kdp EXCEPT !.rows = SelectSeq(kdp.rows, LAMBDA r : InWeek(r, start, end))]

GapPctUnscaled(gap, total_kdp_units) ==
    IF total_kdp_units > 0 THEN Ratio(gap, total_kdp_units) ELSE Zero

\* attribution_gap_pct
GapPct(gap, total_kdp_units) ==
    IF total_kdp_units > 0 THEN Ratio(gap * 100, total_kdp_units) ELSE Zero

\* a missing title or format (NaN in a column of strings)
MissingText == "<NaN>"

\* a group key pandas drops: NaT in the date column, NaN elsewhere
IsMissingKey(col, v) == IF col = "date" THEN v = NaT ELSE v = MissingText

\* position of a key value in the sort order of its column
KeyRank(col, v) == IF col = "date" THEN v ELSE StrRank(v)

\* the group keys in ascending order of the columns by
RECURSIVE SortedGroupKeys(_, _)
SortedGroupKeys(S, by) ==
    IF S = {} THEN <<>>
    ELSE LET m == CHOOSE x \in S : \A y \in S :
                     \/ x = y
                     \/ \E i \in 1..Len(by) :
                           /\ KeyRank(by[i], x[by[i]]) < KeyRank(by[i], y[by[i]])
                           /\ \A j \in 1..(i - 1) : x[by[j]] = y[by[j]]
         IN <<m>> \o SortedGroupKeys(S \ {m}, by)

\* groupby(by, dropna=True) with every row kept, missing keys included
GroupKeysWithMissing(rows, by) ==
    {Project(rows[i], {by[k] : k \in 1..Len(by)}) : i \in 1..Len(rows)}

\* the keys of df.groupby(by): rows with a missing key are left out
GroupKeys(rows, by) ==
    {key \in GroupKeysWithMissing(rows, by) : \A c \in DOMAIN key : ~IsMissingKey(c, key[c])}

\* df.groupby(by).agg(units=(units_col, "sum"), royalty=("royalty", "sum"))
\* .reset_index(); royalty counts the rows when there is no royalty column
Breakdown(df, by, units_col) ==
    LET cols == {by[k] : k \in 1..Len(by)}
        keys == SortedGroupKeys(GroupKeys(df.rows, by), by)
    IN [cols |-> cols \cup {"units", "royalty"},
        rows |-> [k \in 1..Len(keys) |->
                    LET g == GroupRows(df.rows, keys[k])
                    IN [c \in cols \cup {"units", "royalty"} |->
                           IF c = "units" THEN ColSum(g, units_col)
                           ELSE IF c = "royalty"
                                THEN (IF "royalty" \in df.cols THEN ColSum(g, "royalty")
                                      ELSE Len(g))
                                ELSE keys[k][c]]]]

empty_result ==
    [granularity |-> "daily",
     daily_breakdown |-> EmptyDf,
     title_format_breakdown |-> EmptyDf,
     title_totals |-> EmptyDf,
     format_totals |-> EmptyDf,
     df |-> EmptyDf,
     totals |-> [kdp_units |-> 0, kdp_royalty |-> 0, ad_attributed_orders |-> 0,
                 ad_attributed_sales |-> 0, attribution_gap |-> 0,
                 attribution_gap_pct |-> Zero],
     paired_purchases |-> <<>>,
     ad_influenced |-> None]

\* the field df is the function's local table after the week filter
reconcile_kdp_sales(kdp, summary, week_start, week_end, orders, cfg) ==
    IF DfEmpty(kdp) THEN empty_result
    ELSE LET start == ToDatetime(week_start)
             end == ToDatetime(week_end)
             granularity == IF "date" \in kdp.cols /\ ReconIsMonthly(kdp.rows)
                            THEN "monthly" ELSE "daily"
             df == WeekFilter(kdp, start, end)
             units_col == UnitsCol(df)
             total_kdp_units == IF units_col \in df.cols /\ ~DfEmpty(df)
                                THEN ColSum(df.rows, units_col) ELSE 0
             total_kdp_royalty == IF "royalty" \in df.cols /\ ~DfEmpty(df)
                                  THEN ColSum(df.rows, "royalty") ELSE 0
             table == summary.table
             total_ad_orders == IF ~DfEmpty(table) /\ "orders" \in table.cols
                                THEN ColSum(table.rows, "orders") ELSE 0
             total_ad_sales == IF ~DfEmpty(table) /\ "sales" \in table.cols
                               THEN ColSum(table.rows, "sales") ELSE 0
             total_ad_spend == IF ~DfEmpty(table) /\ "spend" \in table.cols
                               THEN ColSum(table.rows, "spend") ELSE 0
             gap == total_kdp_units - total_ad_orders
             group_cols == (IF "date" \in df.cols /\ ~DfEmpty(df) THEN <<"date">> ELSE <<>>)
                           \o SelectSeq(<<"title", "format">>, LAMBDA c : c \in df.cols)
         IN [granularity |-> granularity,
             daily_breakdown |->
                IF ~DfEmpty(df) /\ units_col \in df.cols
                THEN Breakdown(df, group_cols, units_col) ELSE EmptyDf,
             title_format_breakdown |->
                IF ~DfEmpty(df) /\ units_col \in df.cols /\ "format" \in df.cols
                THEN Breakdown(df, <<"title", "format">>, units_col) ELSE EmptyDf,
             title_totals |->
                IF ~DfEmpty(df) /\ units_col \in df.cols
                THEN Breakdown(df, <<"title">>, units_col) ELSE EmptyDf,
             format_totals |->
                IF ~DfEmpty(df) /\ "format" \in df.cols
                THEN Breakdown(df, <<"format">>, units_col) ELSE EmptyDf,
             df |-> df,
             totals |-> [kdp_units |-> total_kdp_units,
                         kdp_royalty |-> total_kdp_royalty,
                         ad_attributed_orders |-> total_ad_orders,
                         ad_attributed_sales |-> total_ad_sales,
                         attribution_gap |-> gap,
                         attribution_gap_pct |-> GapPct(gap, total_kdp_units)],
             paired_purchases |-> _detect_paired_purchases(orders, cfg),
             ad_influenced |-> _estimate_ad_influenced(kdp, orders, cfg, total_ad_spend,
                                                       total_ad_orders, total_ad_sales)]


(***************************************************************************)
(* Inputs of the reconciliation.                                           *)
(***************************************************************************)
KdpCols == {"date", "title", "format", "units_sold", "net_units_sold", "royalty"}

KdpDates == {NaT, 20240101, 20240103, 20240109, 20240110, 20240201, 20240301}

\* a sale with one refund, and a refund booked without a sale
KdpKinds ==
    { [title |-> "Ascension", format |-> "ebook", units_sold |-> 101,
       net_units_sold |-> 100, royalty |-> 27500],
      [title |-> "Descent", format |-> "paperback", units_sold |-> 0,
       net_units_sold |-> -1, royalty |-> -250] }

KdpRowPool ==
    { [date |-> d, title |-> k.title, format |-> k.format, units_sold |-> k.units_sold,
       net_units_sold |-> k.net_units_sold, royalty |-> k.royalty] :
        d \in KdpDates, k \in KdpKinds }

\* the royalty tables load_kdp_report can return, with at most n rows
KdpTables(n) ==
    {EmptyDf}
    \cup { [cols |-> KdpCols, rows |-> rs] : rs \in SeqUpTo(KdpRowPool, n) \ {<<>>} }
    \cup { [cols |-> KdpCols \ {"net_units_sold"}, rows |-> rs] :
             rs \in SeqUpTo({Project(r, KdpCols \ {"net_units_sold"}) : r \in KdpRowPool}, n)
                    \ {<<>>} }

OrderCols == {"date", "title", "asin", "format", "paid_units"}

OrderDates == {NaT, 20240301, 20240305, 20240306}

OrderTitle(a) == IF a = "B0AAA" THEN "Descent" ELSE "Ascension"

OrderRowPool ==
    { [date |-> d, title |-> OrderTitle(a), asin |-> a, format |-> "ebook", paid_units |-> 1] :
        d \in OrderDates, a \in {"B0AAA", "B0BBB", "B0ZZZ"} }

\* the order tables load_kdp_orders can return, with at most n rows
OrderTables(n) ==
    {EmptyDf}
    \cup { [cols |-> OrderCols, rows |-> rs] : rs \in SeqUpTo(OrderRowPool, n) \ {<<>>} }

Book(key, short_title, kindle, paperback) ==
    [key |-> key, short_title |-> short_title, asin_kindle |-> kindle,
     asin_paperback |-> paperback]

\* books identified by their key, books identified by their short title, and a
\* configuration that names Book 1 only
BooksByKey == {Book("book_1", "Descent", "B0AAA", ""), Book("book_2", "Ascension", "B0BBB", "")}

BooksByTitle == {Book("descent", "Book 1: Descent", "B0AAA", ""),
                 Book("ascension", "Book 2: Ascension", "B0BBB", "")}

BooksOnlyBook1 == {Book("book_1", "Descent", "B0AAA", "")}

(***************************************************************************)
(* Campaign configuration: settings and campaigns with their targets.      *)
(***************************************************************************)
NoSettings == [k \in {} |-> None]

CustomSettings ==
    [high_spend_flag |-> 1000, low_impressions_flag |-> 5, target_acos |-> Ratio(1, 4),
     blended_royalty |-> 300, exact_match_transition_date |-> <<2024, 1, 5>>]

\* a target ACoS and a royalty of zero, and a negative target ACoS
ZeroSettings == [target_acos |-> Ratio(0, 1), blended_royalty |-> 0]

NegativeAcosSettings == [target_acos |-> Ratio(-1, 4)]

Target(asin, title, bid) == [asin |-> asin, title |-> title, bid |-> bid]

Campaign(key, name, type, targets) ==
    [key |-> key, name |-> name, type |-> type, targets |-> targets]

\* a product-targeting campaign with a titled target that has a bid and a bare
\* target, and a keyword campaign
Campaigns(bid) ==
    << Campaign("asin_campaign", "Campaign A", "product_targeting",
                <<Target("B0AAA", "Descent", bid), Target("B0BBB", "", None)>>),
       Campaign("keyword_campaign", "Campaign B", "keyword_targeting", <<>>) >>

\* configured bids, in cents
Bids == {None, Ratio(20, 1), Ratio(25, 1), Ratio(50, 1), Ratio(60, 1)}

Config(books, ads_start) ==
    [books |-> books, timeline |-> [amazon_ads_start |-> ads_start],
     settings |-> NoSettings, campaigns |-> Campaigns(Ratio(60, 1))]

ConfigOf(settings, campaigns) ==
    [books |-> BooksByKey, timeline |-> [amazon_ads_start |-> <<2024, 1, 15>>],
     settings |-> settings, campaigns |-> campaigns]

AnalysisConfigs ==
    {ConfigOf(NoSettings, Campaigns(b)) : b \in Bids}
    \cup {ConfigOf(s, Campaigns(Ratio(60, 1))) :
            s \in {CustomSettings, ZeroSettings, NegativeAcosSettings}}

AdsStarts == {<<>>, <<2024, 1, 15>>, <<2024, 2, 1>>}

Weeks == {<<<<2024, 1, 3>>, <<2024, 1, 9>>>>, <<<<2024, 1, 29>>, <<2024, 2, 4>>>>}

\* campaign summaries of the pipeline: one campaign, two campaigns, and the
\* summary of no campaign at all
SummaryInputs ==
    { <<SearchTermRow("Campaign A", "B0AAA", "B0AAA", 20240103, 20240109, Metrics1)>>,
      <<SearchTermRow("Campaign A", "B0AAA", "B0AAA", 20240103, 20240109, Metrics1),
        SearchTermRow("Campaign B", "B0BBB", "B0ZZZ", 20240103, 20240109, Metrics3)>> }

SummaryPool ==
    { generate_campaign_summary(
          build_targeting_from_search_terms([cols |-> BaseCols \cup DateCols, rows |-> rs]),
          None) :
        rs \in SummaryInputs }
    \cup {[table |-> [cols |-> SummaryCols, rows |-> <<>>], wow_available |-> FALSE]}

(***************************************************************************)
(* Targeting tables handed to the analysis modules.                        *)
(***************************************************************************)
\* target_bids of report: the bid of every configured target, by ASIN
RECURSIVE AllTargets(_)
AllTargets(campaigns) ==
    IF campaigns = <<>> THEN <<>>
    ELSE Head(campaigns).targets \o AllTargets(Tail(campaigns))

TargetBid(cfg, targeting) ==
    LET ts == AllTargets(cfg.campaigns)
        at == {i \in 1..Len(ts) : ts[i].asin = targeting}
    IN IF at = {} THEN None ELSE ts[CHOOSE i \in at : \A j \in at : j <= i].bid

\* targeting_df["bid"] = targeting_df["targeting"].map(target_bids), on a
\* table that is not empty
EnrichBids(df, cfg) ==
    IF DfEmpty(df) THEN df
    ELSE [cols |-> df.cols \cup {"bid"},
          rows |-> [i \in 1..Len(df.rows) |->
                      [c \in df.cols \cup {"bid"} |->
                          IF c = "bid" THEN TargetBid(cfg, df.rows[i].targeting)
                          ELSE df.rows[i][c]]]]

MetricsNoData == [impressions |-> 0, clicks |-> 0, spend |-> 0, sales |-> 0, orders |-> 0]

MetricsNoConversions ==
    [impressions |-> 400, clicks |-> 20, spend |-> 600, sales |-> 0, orders |-> 0]

MetricsAtThreshold ==
    [impressions |-> 9, clicks |-> 10, spend |-> 500, sales |-> 0, orders |-> 0]

MetricsBoundary ==
    [impressions |-> 5, clicks |-> 20, spend |-> 500, sales |-> 499, orders |-> 1]

MetricsPool == {Metrics1, Metrics2, Metrics3, MetricsNoData, MetricsNoConversions,
                MetricsAtThreshold, MetricsBoundary}

\* the (campaign_name, targeting) keys of a targeting table, in group order
TargetKeys ==
    << [campaign_name |-> "Campaign A", targeting |-> "B0AAA"],
       [campaign_name |-> "Campaign A", targeting |-> "B0ZZZ"],
       [campaign_name |-> "Campaign B", targeting |-> "B0BBB"],
       [campaign_name |-> "Campaign B", targeting |-> "fantasy"] >>

\* the tables build_targeting_from_search_terms returns with at most n targets
TargetingTables(n) ==
    UNION { { IF idx = {} THEN EmptyDf
              ELSE [cols |-> TargetingCols,
                    rows |-> [k \in 1..Cardinality(idx) |->
                                TargetAggregate(TargetKeys[SortedInts(idx)[k]],
                                                <<ms[SortedInts(idx)[k]]>>)]] :
                ms \in [idx -> MetricsPool] } :
            idx \in {x \in SUBSET (1..Len(TargetKeys)) : Cardinality(x) <= n} }

\* prior-week campaign tables as read back from the snapshot store: none, an
\* empty one, and tables with Campaign A, with both campaigns, with Campaign B
PriorRows ==
    { <<>>,
      <<CampaignAggregate([campaign_name |-> "Campaign A"], <<Metrics3>>)>>,
      <<CampaignAggregate([campaign_name |-> "Campaign A"], <<Metrics3>>),
        CampaignAggregate([campaign_name |-> "Campaign B"], <<MetricsNoConversions>>)>>,
      <<CampaignAggregate([campaign_name |-> "Campaign B"], <<Metrics1>>)>> }

PriorTables == {None} \cup {[cols |-> SummaryCols, rows |-> rs] : rs \in PriorRows}

(***************************************************************************)
(* Search-term tables handed to the drift detector.                        *)
(***************************************************************************)
DriftPairs ==
    { <<"B0AAA", "B0AAA">>, <<"B0AAA", "B0ZZZ">>, <<"B0AAA", "b0aaa">>,
      <<"fantasy", "fantasy">>, <<"fantasy", "Fantasy">>, <<"fantasy", "fantasy books">>,
      <<"fantasy", "space opera">>, <<"fantasy", " fantasy ">> }

\* match type as exported and spend in cents
DriftKinds ==
    { <<"exact", 51>>, <<"EXACT", 51>>, <<"broad", 50>>, <<"broad", 51>>,
      <<"Broad ", 1200>>, <<"phrase", 51>>, <<"-", 51>> }

DriftRow(p, k) ==
    [campaign_name |-> "Campaign A", targeting |-> p[1], search_term |-> p[2],
     match_type |-> k[1], impressions |-> 2 * k[2], clicks |-> 5, spend |-> k[2],
     sales |-> 0, orders |-> 0]

DriftRowPool == {DriftRow(p, k) : p \in DriftPairs, k \in DriftKinds}

\* deduplicated search-term tables with at most n rows
DriftTables(n) ==
    { [cols |-> BaseCols, rows |-> rs] :
        rs \in { s \in SeqUpTo(DriftRowPool, n) :
                   \A i, j \in 1..Len(s) :
                       (s[i].targeting = s[j].targeting /\ s[i].search_term = s[j].search_term)
                           => i = j } }

(***************************************************************************)
(* Export files handed to the loaders.                                     *)
(***************************************************************************)
BannerLine == <<"Sponsored Products report">>

MarkedBannerLine == <<"Campaign Name report">>

SearchHeader ==
    <<"Campaign Name", "Targeting", "Impressions", "Spend", "Click-Thru Rate (CTR)">>

SearchHeaderNoMarker ==
    <<"Campaign", "Targeting", "Impressions", "Spend", "Click-Thru Rate (CTR)">>

\* impressions, spend and ctr as exported
SearchCells ==
    { <<"1000", "$0.72", "2.50%">>, <<"1000", "0.72", "2.50%">>, <<"abc", "0.72", "2.50%">>,
      <<"", "", "2.50%">>, <<"1000", "$abc", "2.50%">>, <<"1000", "1,200.00", "n/a%">>,
      <<"40", "abc", "2.50%">> }

SearchLines ==
    { <<"Campaign A", "fantasy", c[1], c[2], c[3]>> : c \in SearchCells }
    \cup { <<"Campaign A", "asin=\"B0AAA\"", "1000", "$0.72", "2.50%">> }

\* up to n data lines; all but the last are the line with plain numbers
DataLines(pool, plain, n) ==
    {d \in SeqUpTo(pool, n) : \A i \in 1..(Len(d) - 1) : d[i] = plain}

\* n banner lines, the one at position marked (if any) naming the marker
Banners(n, marked, plain, withMarker) ==
    [i \in 1..n |-> IF i = marked THEN withMarker ELSE plain]

SearchCsvFiles ==
    { [kind |-> "search_csv", lines |-> Banners(n, m, BannerLine, MarkedBannerLine) \o h \o d] :
        n \in 0..MaxBannerLines, m \in {0, 1}, h \in {<<SearchHeader>>, <<SearchHeaderNoMarker>>, <<>>},
        d \in DataLines(SearchLines, <<"Campaign A", "fantasy", "1000", "0.72", "2.50%">>,
                        MaxDataLines) }

KdpBannerLine == <<"KDP Sales Dashboard">>

KdpMarkedBannerLine == <<"Date range", "Book Title">>

KdpHeader == <<"Date", "Title", "Marketplace", "Net Units Sold", "Royalty">>

KdpHeaderNoMarker == <<"Royalty Date", "Title", "Marketplace", "Net Units Sold", "Royalty">>

\* marketplace, net units and royalty as exported
KdpCells ==
    { <<"Amazon.com", "3", "3.49">>, <<"Amazon.com", "3", "$0.72">>,
      <<"Amazon.com.mx", "3", "3.49">>, <<"Amazon.co.uk", "3", "3.49">>,
      <<"Amazon.com", "abc", "3.49">>, <<"Amazon.com", "3", "$abc">>,
      <<"", "3", "">>, <<"Amazon.com.au", "3", "$0.72">> }

KdpLines == { <<"2024-01-03", "Descent", c[1], c[2], c[3]>> : c \in KdpCells }

KdpCsvFiles ==
    { [kind |-> "kdp_csv", lines |-> Banners(n, m, KdpBannerLine, KdpMarkedBannerLine) \o h \o d] :
        n \in 0..MaxBannerLines, m \in {0, 1}, h \in {<<KdpHeader>>, <<KdpHeaderNoMarker>>},
        d \in DataLines(KdpLines, <<"2024-01-03", "Descent", "Amazon.com", "3", "3.49">>,
                        MaxDataLines) }

RoyaltySheetCols == {"Royalty Date", "Title", "Marketplace", "Net Units Sold", "Royalty"}

MarketplaceCells ==
    {Str("Amazon.com"), Str("Amazon.com.mx"), Str("Amazon.com.au"), Str("Amazon.co.uk"),
     Str("Amazon.de"), NaN}

RoyaltySheetRow(m, units, royalty) ==
    [c \in RoyaltySheetCols |->
        CASE c = "Royalty Date" -> [date |-> 20240101]
          [] c = "Title" -> Str("Descent")
          [] c = "Marketplace" -> m
          [] c = "Net Units Sold" -> units
          [] c = "Royalty" -> royalty]

RoyaltySheetRows ==
    {RoyaltySheetRow(m, Num(300), Num(349)) : m \in MarketplaceCells}
    \cup {RoyaltySheetRow(Str("Amazon.com"), u, r) :
            u \in {Num(300), Str("abc")}, r \in {Str("$0.72"), Str("abc"), NaN}}

RoyaltySheets(n) ==
    { [cols |-> RoyaltySheetCols, rows |-> rs] :
        rs \in DataLines(RoyaltySheetRows,
                         RoyaltySheetRow(Str("Amazon.com"), Num(300), Num(349)), n) }

OrderSheetCols == {"Date", "Title", "ASIN", "Marketplace", "Paid Units"}

OrderSheetRow(m) ==
    [c \in OrderSheetCols |->
        CASE c = "Date" -> [date |-> 20240305]
          [] c = "Title" -> Str("Descent")
          [] c = "ASIN" -> Str("B0AAA")
          [] c = "Marketplace" -> m
          [] c = "Paid Units" -> Num(100)]

OrderSheets ==
    { [cols |-> OrderSheetCols, rows |-> rs] :
        rs \in SeqUpTo({OrderSheetRow(m) : m \in MarketplaceCells}, 1) }

\* a function with the keys of ks whose sheet is present
SheetsOf(named) ==
    LET present == {p \in named : p[2] # None}
    IN [n \in {p[1] : p \in present} |-> (CHOOSE p \in present : p[1] = n)[2]]

KdpWorkbooks ==
    { [kind |-> "kdp_xlsx",
       sheets |-> SheetsOf({<<"eBook Royalty", e>>, <<"Paperback Royalty", pb>>,
                            <<"Hardcover Royalty", hc>>, <<"eBook Orders Placed", eo>>,
                            <<"Orders Processed", op>>})] :
        e \in RoyaltySheets(MaxSheetRows) \cup {None},
        pb \in {None, [cols |-> RoyaltySheetCols,
                       rows |-> <<RoyaltySheetRow(Str("Amazon.co.uk"), Num(300), Num(349))>>]},
        hc \in {None, [cols |-> RoyaltySheetCols, rows |-> <<>>]},
        eo \in OrderSheets \cup {None},
        op \in {None, [cols |-> OrderSheetCols, rows |-> <<OrderSheetRow(Str("Amazon.com.mx"))>>]} }

(***************************************************************************)
(* The reconciliation called on its inputs.                                *)
(***************************************************************************)
Reconcile ==
    /\ pc = "recon"
    /\ kdp_recon' = reconcile_kdp_sales(kdp_df, campaign_summary, week[1], week[2],
                                        kdp_orders_df, config)
    /\ pc' = "done"
    /\ UNCHANGED ioVars
    /\ UNCHANGED <<kdp_df, kdp_orders_df, config, campaign_summary, week, pipeVars,
                   analysisVars>>

PipeIdle ==
    /\ files = <<>>
    /\ search_term_df = EmptyDf
    /\ targeting_df = EmptyDf

StoreIdle ==
    /\ db = None
    /\ run = None

IoIdle ==
    /\ export = None
    /\ loaded = None
    /\ StoreIdle

AnalysisIdle ==
    /\ prior_week_df = None
    /\ asin_performance = None
    /\ keyword_performance = None
    /\ search_term_analysis = None
    /\ bid_recs = None

\* reconciliation of every royalty table, week, summary and ads-start date
InitRecon ==
    /\ kdp_df \in KdpTables(MaxKdpRows)
    /\ kdp_orders_df \in {t \in OrderTables(1) :
                              \A i \in 1..Len(t.rows) :
                                  t.rows[i].date = 20240305 /\ t.rows[i].asin = "B0BBB"}
    /\ config \in {None} \cup {Config(BooksByKey, a) : a \in AdsStarts}
    /\ campaign_summary \in SummaryPool
    /\ week \in Weeks
    /\ kdp_recon = None
    /\ PipeIdle
    /\ AnalysisIdle
    /\ IoIdle
    /\ pc = "recon"

NextRecon == Reconcile

SpecRecon == InitRecon /\ [][NextRecon]_vars

\* paired-purchase detection on every order table and book configuration
InitPaired ==
    /\ kdp_df = [cols |-> KdpCols,
                 rows |-> <<CHOOSE r \in KdpRowPool :
                                r.date = 20240103 /\ r.title = "Ascension">>]
    /\ kdp_orders_df \in OrderTables(MaxOrderRows)
    /\ config \in {None} \cup {Config(b, <<2024, 1, 15>>) :
                                 b \in {BooksByKey, BooksByTitle, BooksOnlyBook1}}
    /\ campaign_summary \in {s \in SummaryPool : Len(s.table.rows) = 1}
    /\ week = <<<<2024, 1, 3>>, <<2024, 1, 9>>>>
    /\ kdp_recon = None
    /\ PipeIdle
    /\ AnalysisIdle
    /\ IoIdle
    /\ pc = "recon"

NextPaired == Reconcile

SpecPaired == InitPaired /\ [][NextPaired]_vars

(***************************************************************************)
(* The reconciliation of royalty tables with missing titles and formats.   *)
(***************************************************************************)
BreakdownRowPool ==
    { [date |-> d, title |-> t, format |-> f, units_sold |-> 3, net_units_sold |-> 2,
       royalty |-> 698] :
        d \in {20240103, 20240110},
        t \in {"Ascension", "Descent", MissingText},
        f \in {"ebook", "paperback", MissingText} }

\* royalty tables with at most n rows, with and without a format column
BreakdownTables(n) ==
    { [cols |-> KdpCols, rows |-> rs] : rs \in SeqUpTo(BreakdownRowPool, n) \ {<<>>} }
    \cup { [cols |-> KdpCols \ {"format"}, rows |-> rs] :
             rs \in SeqUpTo({Project(r, KdpCols \ {"format"}) :
                               r \in {x \in BreakdownRowPool : x.format = "ebook"}}, n)
                    \ {<<>>} }

InitBreakdown ==
    /\ kdp_df \in BreakdownTables(MaxBreakdownRows)
    /\ kdp_orders_df = EmptyDf
    /\ config = None
    /\ campaign_summary \in {x \in SummaryPool : Len(x.table.rows) = 1}
    /\ week = <<<<2024, 1, 3>>, <<2024, 1, 9>>>>
    /\ kdp_recon = None
    /\ PipeIdle
    /\ AnalysisIdle
    /\ IoIdle
    /\ pc = "recon"

NextBreakdown == Reconcile

SpecBreakdown == InitBreakdown /\ [][NextBreakdown]_vars

(***************************************************************************)
(* The analysis modules called on one targeting table.                     *)
(***************************************************************************)
Summarize ==
    /\ pc = "summary"
    /\ campaign_summary' = IF SummaryRaises(targeting_df) THEN Raised
                           ELSE generate_campaign_summary(targeting_df, prior_week_df)
    /\ pc' = "asin"
    /\ UNCHANGED ioVars
    /\ UNCHANGED <<kdp_df, kdp_orders_df, config, week, kdp_recon, pipeVars, analysisVars>>

AnalyzeAsins ==
    /\ pc = "asin"
    /\ asin_performance' = analyze_asin_targets(targeting_df, config)
    /\ pc' = "keywords"
    /\ UNCHANGED ioVars
    /\ UNCHANGED <<reconVars, pipeVars, prior_week_df, keyword_performance,
                   search_term_analysis, bid_recs>>

AnalyzeKeywords ==
    /\ pc = "keywords"
    /\ keyword_performance' = analyze_keywords(targeting_df, config)
    /\ pc' = "bids"
    /\ UNCHANGED ioVars
    /\ UNCHANGED <<reconVars, pipeVars, prior_week_df, asin_performance,
                   search_term_analysis, bid_recs>>

RecommendBids ==
    /\ pc = "bids"
    /\ bid_recs' = recommend_bids(targeting_df, config)
    /\ pc' = "analysed"
    /\ UNCHANGED ioVars
    /\ UNCHANGED <<reconVars, pipeVars, prior_week_df, asin_performance,
                   keyword_performance, search_term_analysis>>

\* every targeting table and configuration; a prior week only with the default
\* settings
InitAnalysis ==
    /\ config \in AnalysisConfigs
    /\ prior_week_df \in PriorTables
    /\ prior_week_df # None => config = ConfigOf(NoSettings, Campaigns(Ratio(60, 1)))
    /\ \E t \in TargetingTables(MaxTargets) : targeting_df = EnrichBids(t, config)
    /\ files = <<>>
    /\ search_term_df = EmptyDf
    /\ campaign_summary = None
    /\ asin_performance = None
    /\ keyword_performance = None
    /\ search_term_analysis = None
    /\ bid_recs = None
    /\ IoIdle
    /\ kdp_recon = None
    /\ kdp_df = EmptyDf
    /\ kdp_orders_df = EmptyDf
    /\ week = <<<<2024, 1, 3>>, <<2024, 1, 9>>>>
    /\ pc = "summary"

NextAnalysis == Summarize \/ AnalyzeAsins \/ AnalyzeKeywords \/ RecommendBids

SpecAnalysis == InitAnalysis /\ [][NextAnalysis]_vars

(***************************************************************************)
(* The drift detector called on one search-term table.                     *)
(***************************************************************************)
AnalyzeSearchTerms ==
    /\ pc = "drift"
    /\ search_term_analysis' = analyze_search_terms(search_term_df, config)
    /\ pc' = "drifted"
    /\ UNCHANGED ioVars
    /\ UNCHANGED <<reconVars, pipeVars, prior_week_df, asin_performance,
                   keyword_performance, bid_recs>>

InitDrift ==
    /\ search_term_df \in DriftTables(MaxDriftRows)
    /\ config \in {ConfigOf(NoSettings, Campaigns(None)),
                   ConfigOf(CustomSettings, Campaigns(None))}
    /\ files = <<>>
    /\ targeting_df = EmptyDf
    /\ campaign_summary = None
    /\ AnalysisIdle
    /\ IoIdle
    /\ kdp_recon = None
    /\ kdp_df = EmptyDf
    /\ kdp_orders_df = EmptyDf
    /\ week = <<<<2024, 1, 3>>, <<2024, 1, 9>>>>
    /\ pc = "drift"

\* analyze.py: the search terms of the summary are resolved and the result
\* rewritten when at least one of them is an ASIN
ResolveAsins ==
    /\ pc = "drifted"
    /\ ~DfEmpty(search_term_analysis.summary)
    /\ \E titled \in SUBSET {"b0aaa", "b0zzz"} :
          LET summary == search_term_analysis.summary
              terms == {summary.rows[i].search_term : i \in 1..Len(summary.rows)}
              asin_map == resolve_asins(terms, titled)
          IN /\ DOMAIN asin_map # {}
             /\ search_term_analysis' = apply_asin_resolution(search_term_analysis, asin_map)
    /\ pc' = "resolved"
    /\ UNCHANGED ioVars
    /\ UNCHANGED <<reconVars, pipeVars, prior_week_df, asin_performance,
                   keyword_performance, bid_recs>>

NextDrift == AnalyzeSearchTerms \/ ResolveAsins

SpecDrift == InitDrift /\ [][NextDrift]_vars


(***************************************************************************)
(* The loaders called on one export file.                                  *)
(***************************************************************************)
LoadSearchTermReport ==
    /\ pc = "load"
    /\ export.kind = "search_csv"
    /\ loaded' = [by |-> "load_search_term_report"] @@ load_search_term_report(export.lines)
    /\ pc' = "loaded"
    /\ UNCHANGED <<reconVars, pipeVars, analysisVars, export, storeVars>>

LoadKdpReport ==
    /\ pc = "load"
    /\ export.kind \in {"kdp_csv", "kdp_xlsx"}
    /\ loaded' = [by |-> "load_kdp_report"] @@ load_kdp_report(export)
    /\ pc' = "loaded"
    /\ UNCHANGED <<reconVars, pipeVars, analysisVars, export, storeVars>>

LoadKdpOrders ==
    /\ pc = "load"
    /\ export.kind \in {"kdp_csv", "kdp_xlsx"}
    /\ loaded' = [by |-> "load_kdp_orders", header_row |-> 0, df |-> load_kdp_orders(export)]
    /\ pc' = "loaded"
    /\ UNCHANGED <<reconVars, pipeVars, analysisVars, export, storeVars>>

InitLoad ==
    /\ export \in SearchCsvFiles \cup KdpCsvFiles \cup KdpWorkbooks
    /\ loaded = None
    /\ StoreIdle
    /\ PipeIdle
    /\ AnalysisIdle
    /\ campaign_summary = None
    /\ config = None
    /\ kdp_recon = None
    /\ kdp_df = EmptyDf
    /\ kdp_orders_df = EmptyDf
    /\ week = <<<<2024, 1, 3>>, <<2024, 1, 9>>>>
    /\ pc = "load"

NextLoad == LoadSearchTermReport \/ LoadKdpReport \/ LoadKdpOrders

SpecLoad == InitLoad /\ [][NextLoad]_vars

(***************************************************************************)
(* Properties of the reconciliation.                                       *)
(***************************************************************************)
Reconciled == kdp_recon # None

\* a table is monthly iff it has a non-null date and every non-null date is a 1st
TableIsMonthly(rows) ==
    /\ \E i \in 1..Len(rows) : rows[i].date # NaT
    /\ \A i \in 1..Len(rows) : rows[i].date # NaT => rows[i].date % 100 = 1

WeekStart == ToDatetime(week[1])

WeekEnd == ToDatetime(week[2])

\* the rows of the week: by date range for daily data, by month for monthly data
RetainedForWeek(r) ==
    /\ r.date # NaT
    /\ IF TableIsMonthly(kdp_df.rows)
       THEN \/ r.date \div 100 = WeekStart \div 100
            \/ r.date \div 100 = WeekEnd \div 100
       ELSE WeekStart <= r.date /\ r.date <= WeekEnd

UnitsOf(r) == IF "net_units_sold" \in DOMAIN r THEN r.net_units_sold ELSE r.units_sold

RECURSIVE UnitsOver(_)
UnitsOver(rows) == IF rows = <<>> THEN 0 ELSE UnitsOf(Head(rows)) + UnitsOver(Tail(rows))

RECURSIVE RoyaltyOver(_)
RoyaltyOver(rows) == IF rows = <<>> THEN 0 ELSE Head(rows).royalty + RoyaltyOver(Tail(rows))

RECURSIVE OrdersOver(_)
OrdersOver(rows) == IF rows = <<>> THEN 0 ELSE Head(rows).orders + OrdersOver(Tail(rows))

WeekUnits == UnitsOver(SelectSeq(kdp_df.rows, RetainedForWeek))

CampaignOrders == OrdersOver(campaign_summary.table.rows)

\* C1 as stated: for every KDP table and campaign summary the reported gap is
\* kdp_units - ad_attributed_orders, with kdp_units the net (else gross) units of
\* the week's rows and ad_attributed_orders the orders of all campaigns, and the
\* reported percentage is gap / kdp_units * 100, or 0 when kdp_units is 0.
C1_AsStated ==
    Reconciled =>
        LET t == kdp_recon.totals
        IN /\ t.kdp_units = WeekUnits
           /\ t.ad_attributed_orders = CampaignOrders
           /\ t.attribution_gap = t.kdp_units - t.ad_attributed_orders
           /\ IF t.kdp_units = 0
              THEN t.attribution_gap_pct.num = 0
              ELSE t.attribution_gap_pct.num * t.kdp_units
                     = t.attribution_gap * 100 * t.attribution_gap_pct.den

\* C1 amended: for a non-empty KDP table the gap is kdp_units - ad_attributed_orders
\* as stated, and the percentage is gap / kdp_units * 100 when kdp_units > 0 and 0
\* when kdp_units <= 0; for an empty KDP table every total is reported as 0.
C1_GapAndPct ==
    Reconciled =>
        LET t == kdp_recon.totals
        IN IF DfEmpty(kdp_df)
           THEN /\ t.kdp_units = 0
                /\ t.ad_attributed_orders = 0
                /\ t.attribution_gap = 0
                /\ t.attribution_gap_pct.num = 0
           ELSE /\ t.kdp_units = WeekUnits
                /\ t.ad_attributed_orders = CampaignOrders
                /\ t.attribution_gap = t.kdp_units - t.ad_attributed_orders
                /\ IF t.kdp_units > 0
                   THEN t.attribution_gap_pct.num * t.kdp_units
                          = t.attribution_gap * 100 * t.attribution_gap_pct.den
                   ELSE t.attribution_gap_pct.num = 0

\* kdp_units = 100 and 12 attributed orders: gap 88, 88.0 percent
C1_Witness ==
    /\ Reconciled
    /\ kdp_recon.totals.kdp_units = 100
    /\ kdp_recon.totals.ad_attributed_orders = 12
    /\ kdp_recon.totals.attribution_gap = 88
    /\ RatioEq(kdp_recon.totals.attribution_gap_pct, Ratio(88, 1))

\* C2: the rows kept for the week are exactly, and in table order, the rows with
\* week_start <= date <= week_end when the table is daily, and the rows of the
\* month of week_start or of week_end when the table is monthly.
C2_WeekFilter ==
    (Reconciled /\ ~DfEmpty(kdp_df)) =>
        kdp_recon.df.rows = SelectSeq(kdp_df.rows, RetainedForWeek)

\* a daily table with a row dated week_end, which is kept, and a later row, which
\* is not
C2_Witness ==
    /\ Reconciled
    /\ kdp_recon.granularity = "daily"
    /\ Len(kdp_df.rows) = 2
    /\ kdp_df.rows[1].date = WeekEnd
    /\ kdp_df.rows[2].date > WeekEnd
    /\ kdp_recon.df.rows = <<kdp_df.rows[1]>>

\* a row is post-ad by date for daily data, by month for monthly data
PostAd(r) ==
    LET ads == ToDatetime(config.timeline.amazon_ads_start)
    IN /\ r.date # NaT
       /\ IF TableIsMonthly(kdp_df.rows)
          THEN r.date \div 100 >= ads \div 100
          ELSE r.date >= ads

PreAd(r) == ~PostAd(r)

\* C3: the table is classified monthly iff it has a non-null date and all its
\* non-null dates are on day 1, daily otherwise; the week filter keeps rows by
\* that classification and the ad-influenced estimate reports the same one.
C3_Granularity ==
    Reconciled =>
        /\ kdp_recon.granularity = (IF TableIsMonthly(kdp_df.rows) THEN "monthly" ELSE "daily")
        /\ ~DfEmpty(kdp_df) =>
              /\ \A i \in 1..Len(kdp_recon.df.rows) :
                    LET d == kdp_recon.df.rows[i].date
                    IN IF kdp_recon.granularity = "monthly"
                       THEN d \div 100 \in {WeekStart \div 100, WeekEnd \div 100}
                       ELSE WeekStart <= d /\ d <= WeekEnd
              /\ kdp_recon.ad_influenced # None =>
                    /\ (kdp_recon.ad_influenced.note[1] = "kdp_monthly")
                          <=> (kdp_recon.granularity = "monthly")
                    /\ kdp_recon.ad_influenced.post_ad_units
                          = UnitsOver(SelectSeq(kdp_df.rows, PostAd))

\* a table with a first-of-month and another date is daily for both consumers
C3_Witness ==
    /\ Reconciled
    /\ kdp_recon.granularity = "daily"
    /\ kdp_recon.ad_influenced # None
    /\ kdp_recon.ad_influenced.note[1] # "kdp_monthly"
    /\ \E i, j \in 1..Len(kdp_df.rows) :
          /\ kdp_df.rows[i].date = 20240201
          /\ kdp_df.rows[j].date = 20240103

\* C6: no estimate without a configuration or an ads-start date; otherwise every
\* row of the whole table is post-ad (date >= ads start for daily data, month >=
\* month of the ads start for monthly data) or pre-ad, and the two parts add up to
\* the table's units and royalty.
C6_AdInfluencedPartition ==
    (Reconciled /\ ~DfEmpty(kdp_df)) =>
        LET e == kdp_recon.ad_influenced
        IN IF config = None
           THEN e = None
           ELSE IF config.timeline.amazon_ads_start = <<>>
           THEN e = None
           ELSE /\ e # None
                /\ e.post_ad_units = UnitsOver(SelectSeq(kdp_df.rows, PostAd))
                /\ e.pre_ad_units = UnitsOver(SelectSeq(kdp_df.rows, PreAd))
                /\ e.post_ad_royalty = RoyaltyOver(SelectSeq(kdp_df.rows, PostAd))
                /\ e.pre_ad_royalty = RoyaltyOver(SelectSeq(kdp_df.rows, PreAd))
                /\ e.post_ad_units + e.pre_ad_units = UnitsOver(kdp_df.rows)
                /\ e.post_ad_royalty + e.pre_ad_royalty = RoyaltyOver(kdp_df.rows)

\* monthly data, ads started 2024-02-01: the January row is pre-ad, the March row
\* is post-ad although it lies outside the reported week
C6_Witness ==
    /\ Reconciled
    /\ kdp_recon.ad_influenced # None
    /\ kdp_recon.granularity = "monthly"
    /\ config.timeline.amazon_ads_start = <<2024, 2, 1>>
    /\ Len(kdp_df.rows) = 2
    /\ kdp_df.rows[1].date = 20240101
    /\ kdp_df.rows[2].date = 20240301
    /\ kdp_recon.ad_influenced.pre_ad_units = UnitsOf(kdp_df.rows[1])
    /\ kdp_recon.ad_influenced.post_ad_units = UnitsOf(kdp_df.rows[2])
    /\ kdp_recon.df.rows = <<kdp_df.rows[1]>>


(***************************************************************************)
(* Properties of the paired-purchase detection.                            *)
(***************************************************************************)
OrderDated(i) == kdp_orders_df.rows[i].date # NaT

\* the order table has a date that is not the first of a month
OrdersAreDaily ==
    \E i \in 1..Len(kdp_orders_df.rows) :
        OrderDated(i) /\ kdp_orders_df.rows[i].date % 100 # 1

BooksConfigured ==
    /\ config # None
    /\ Book1Asins(config) # {}
    /\ Book2Asins(config) # {}

\* the dates with an order row of Book 1 and an order row of Book 2
DatesWithBothBooks ==
    { kdp_orders_df.rows[i].date :
        i \in { k \in 1..Len(kdp_orders_df.rows) :
                  /\ OrderDated(k)
                  /\ kdp_orders_df.rows[k].asin \in Book1Asins(config)
                  /\ \E j \in 1..Len(kdp_orders_df.rows) :
                        /\ kdp_orders_df.rows[j].date = kdp_orders_df.rows[k].date
                        /\ kdp_orders_df.rows[j].asin \in Book2Asins(config) } }

PairedDates == [i \in 1..Len(kdp_recon.paired_purchases) |-> kdp_recon.paired_purchases[i].date]

\* C4 as stated: for a daily order table and non-empty Book 1 and Book 2 sets the
\* result has exactly one entry per date with an order of both books, the 1st of
\* a month included, no other entry, in ascending date order.
C4_AsStated ==
    (Reconciled /\ BooksConfigured /\ OrdersAreDaily) =>
        LET expected == SortedInts(DatesWithBothBooks)
        IN PairedDates = [i \in 1..Len(expected) |-> Strftime(expected[i])]

\* C5 as stated: when every non-null order date is the first of a month the
\* result has no paired purchase.
C5_AsStated ==
    (Reconciled /\ ~OrdersAreDaily) => kdp_recon.paired_purchases = <<>>


(***************************************************************************)
(* The report command (analyze.py: report), step by step.                  *)
(***************************************************************************)
\* one turn of the loop over --search-terms: load a file, append its table; the
\* files of one run are exports of one vintage (the same columns)
LoadFile ==
    /\ pc = "ingest"
    /\ Len(files) < MaxFiles
    /\ \E t \in FileTables(MaxRows - TotalRows(files)) :
          /\ \A i \in 1..Len(files) : files[i].cols = t.cols
          /\ files' = Append(files, t)
    /\ UNCHANGED ioVars
    /\ UNCHANGED <<reconVars, search_term_df, targeting_df, analysisVars, pc>>

\* a path given a second time loads the same table again
LoadFileAgain ==
    /\ pc = "ingest"
    /\ Len(files) >= 1
    /\ Len(files) < MaxFiles
    /\ \E k \in 1..Len(files) : files' = Append(files, files[k])
    /\ UNCHANGED ioVars
    /\ UNCHANGED <<reconVars, search_term_df, targeting_df, analysisVars, pc>>

\* pd.concat of the loaded tables (at least one --search-terms is required)
ConcatFrames ==
    /\ pc = "ingest"
    /\ Len(files) >= 1
    /\ search_term_df' = Concat(files)
    /\ pc' = "dedup"
    /\ UNCHANGED ioVars
    /\ UNCHANGED <<reconVars, files, targeting_df, analysisVars>>

Dedup ==
    /\ pc = "dedup"
    /\ search_term_df' = Deduplicate(search_term_df)
    /\ pc' = "targeting"
    /\ UNCHANGED ioVars
    /\ UNCHANGED <<reconVars, files, targeting_df, analysisVars>>

BuildTargeting ==
    /\ pc = "targeting"
    /\ targeting_df' = EnrichBids(build_targeting_from_search_terms(search_term_df), config)
    /\ pc' = "analysis"
    /\ UNCHANGED ioVars
    /\ UNCHANGED <<reconVars, files, search_term_df, analysisVars>>

\* the analysis stages; generate_campaign_summary raises on a table without a
\* campaign_name column and the command ends there
Analysis ==
    /\ pc = "analysis"
    /\ IF SummaryRaises(targeting_df)
       THEN /\ pc' = "crashed"
            /\ UNCHANGED <<campaign_summary, kdp_recon, asin_performance,
                           keyword_performance, search_term_analysis, bid_recs>>
       ELSE /\ campaign_summary' = generate_campaign_summary(targeting_df, prior_week_df)
            /\ asin_performance' = analyze_asin_targets(targeting_df, config)
            /\ keyword_performance' = analyze_keywords(targeting_df, config)
            /\ search_term_analysis' = analyze_search_terms(search_term_df, config)
            /\ kdp_recon' = reconcile_kdp_sales(kdp_df, campaign_summary', week[1], week[2],
                                                kdp_orders_df, config)
            /\ bid_recs' = recommend_bids(targeting_df, config)
            /\ pc' = "reported"
    /\ UNCHANGED ioVars
    /\ UNCHANGED <<kdp_df, kdp_orders_df, config, week, pipeVars, prior_week_df>>

InitReport ==
    /\ files = <<>>
    /\ search_term_df = EmptyDf
    /\ targeting_df = EmptyDf
    /\ campaign_summary = None
    /\ kdp_recon = None
    /\ kdp_df = [cols |-> KdpCols,
                 rows |-> <<CHOOSE r \in KdpRowPool :
                                r.date = 20240103 /\ r.title = "Ascension">>]
    /\ kdp_orders_df = EmptyDf
    /\ config = Config(BooksByKey, <<2024, 1, 15>>)
    /\ week = <<<<2024, 1, 3>>, <<2024, 1, 9>>>>
    /\ AnalysisIdle
    /\ IoIdle
    /\ pc = "ingest"

NextReport == LoadFile \/ LoadFileAgain \/ ConcatFrames \/ Dedup \/ BuildTargeting \/ Analysis

SpecReport == InitReport /\ [][NextReport]_vars

Init == InitReport

Next == NextReport

Spec == SpecReport


(***************************************************************************)
(* Properties of the deduplication and of the targeting builder.           *)
(***************************************************************************)
\* all loaded rows in file-then-row order
RECURSIVE LoadedRows(_)
LoadedRows(fs) == IF fs = <<>> THEN <<>> ELSE Head(fs).rows \o LoadedRows(Tail(fs))

DatesLoaded(fs) == \E i \in 1..Len(fs) : "start_date" \in fs[i].cols

\* a row's deduplication key: campaign, targeting, search term, and the dates
\* when the concatenated table has date columns (null where the file had none)
DedupKey(r, dated) ==
    <<r.campaign_name, r.targeting, r.search_term,
      IF dated /\ "start_date" \in DOMAIN r THEN r.start_date ELSE NaT,
      IF dated /\ "end_date" \in DOMAIN r THEN r.end_date ELSE NaT>>

\* positions of the first row of every key
FirstOccurrences(rows, dated) ==
    {i \in 1..Len(rows) :
        \A j \in 1..(i - 1) : DedupKey(rows[j], dated) # DedupKey(rows[i], dated)}

\* the columns of a row that every file has
Loaded(r) == Project(r, BaseCols \cup (DateCols \cap DOMAIN r))

SameRow(out, in) ==
    /\ Project(out, BaseCols) = Project(in, BaseCols)
    /\ \A c \in DateCols \cap DOMAIN in : out[c] = in[c]

Deduplicated == pc \in {"targeting", "analysis", "reported", "crashed"}

Aggregated == pc \in {"analysis", "reported", "crashed"}

\* C7: the deduplicated table holds exactly the first row of every key of the
\* concatenated files, in file-then-row order: one row per distinct key.
C7_DedupKeepsFirst ==
    Deduplicated =>
        LET in == LoadedRows(files)
            dated == DatesLoaded(files)
            kept == SortedInts(FirstOccurrences(in, dated))
            out == search_term_df.rows
        IN /\ Len(out) = Len(kept)
           /\ \A k \in 1..Len(kept) : SameRow(out[k], in[kept[k]])
           /\ \A i, j \in 1..Len(out) :
                 DedupKey(out[i], dated) = DedupKey(out[j], dated) => i = j
           /\ {DedupKey(out[i], dated) : i \in 1..Len(out)}
                 = {DedupKey(in[i], dated) : i \in 1..Len(in)}

\* two files share a key with different numbers: the first file's row is kept
C7_Witness ==
    /\ Deduplicated
    /\ Len(files) = 2
    /\ Len(files[1].rows) = 2
    /\ Len(files[2].rows) = 1
    /\ DedupKey(files[1].rows[2], TRUE) = DedupKey(files[2].rows[1], TRUE)
    /\ files[1].rows[2].spend # files[2].rows[1].spend
    /\ DedupKey(files[1].rows[1], TRUE) # DedupKey(files[1].rows[2], TRUE)
    /\ search_term_df.rows = files[1].rows

\* C8: a file given twice deduplicates to what the file alone deduplicates to,
\* and deduplicating the deduplicated table again changes nothing.
C8_DedupIdempotent ==
    Deduplicated =>
        /\ (Len(files) = 2 /\ files[1] = files[2]) =>
              search_term_df = Deduplicate(Concat(<<files[1]>>))
        /\ Deduplicate(search_term_df) = search_term_df

\* a three-row file with a repeated key, given twice
C8_Witness ==
    /\ Deduplicated
    /\ Len(files) = 2
    /\ files[1] = files[2]
    /\ Len(files[1].rows) = 3
    /\ Len(search_term_df.rows) = 2
    /\ search_term_df.rows = SubSeq(files[1].rows, 1, 2)

\* spend, orders, ... of the rows of one campaign, or of one target of it
Matching(rows, c, t) ==
    SelectSeq(rows, LAMBDA r : r.campaign_name = c /\ (t = "" \/ r.targeting = t))

RECURSIVE FieldOver(_, _)
FieldOver(rows, f) == IF rows = <<>> THEN 0 ELSE Head(rows)[f] + FieldOver(Tail(rows), f)

SummedFields == {"impressions", "clicks", "spend", "sales", "orders"}

FirstRows(fs) ==
    LET in == LoadedRows(fs)
        kept == SortedInts(FirstOccurrences(in, DatesLoaded(fs)))
    IN [k \in 1..Len(kept) |-> in[kept[k]]]

TargetPairs(rows) == {<<rows[i].campaign_name, rows[i].targeting>> : i \in 1..Len(rows)}

\* C10: the targeting table has exactly one row per (campaign_name, targeting)
\* pair of its input, and per campaign its spend adds up to the input's spend.
C10_TargetingConservesSpend ==
    Aggregated =>
        LET in == search_term_df.rows
            out == targeting_df.rows
        IN /\ TargetPairs(out) = TargetPairs(in)
           /\ Len(out) = Cardinality(TargetPairs(in))
           /\ \A c \in {in[i].campaign_name : i \in 1..Len(in)} :
                 FieldOver(Matching(out, c, ""), "spend") = FieldOver(Matching(in, c, ""), "spend")

\* a campaign with two targets, one of them summed from two search terms
C10_Witness ==
    /\ Aggregated
    /\ Len(search_term_df.rows) = 3
    /\ Len(targeting_df.rows) = 2
    /\ targeting_df.rows[1].campaign_name = targeting_df.rows[2].campaign_name
    /\ \E i \in 1..2 :
          /\ Len(Matching(search_term_df.rows, targeting_df.rows[i].campaign_name,
                          targeting_df.rows[i].targeting)) = 2
          /\ targeting_df.rows[i].spend > 1200



(***************************************************************************)
(* Properties of the analysis modules.                                     *)
(***************************************************************************)
Summarized == pc \in {"asin", "keywords", "bids", "analysed"} /\ campaign_summary # Raised

\* C11: every campaign row's ctr is the campaign's summed clicks over its
\* summed impressions (0 when there are no impressions), one row per campaign,
\* and not the mean of the per-target ctr values.
C11_CtrFromSums ==
    Summarized =>
        LET out == campaign_summary.table.rows
            in == targeting_df.rows
        IN /\ {out[i].campaign_name : i \in 1..Len(out)}
                 = {in[i].campaign_name : i \in 1..Len(in)}
           /\ \A i, j \in 1..Len(out) : out[i].campaign_name = out[j].campaign_name => i = j
           /\ \A i \in 1..Len(out) :
                 LET g == Matching(in, out[i].campaign_name, "")
                     clicks_total == FieldOver(g, "clicks")
                     impressions_total == FieldOver(g, "impressions")
                 IN /\ out[i].ctr.den > 0
                    /\ IF impressions_total > 0
                       THEN RatioEq(out[i].ctr, Ratio(clicks_total, impressions_total))
                       ELSE out[i].ctr.num = 0

\* two targets of one campaign, 40 clicks on 1000 impressions and 30 on 500:
\* the campaign ctr is 70/1500, the mean of the two ctr values would be 1/20
C11_Witness ==
    /\ Summarized
    /\ Len(targeting_df.rows) = 2
    /\ targeting_df.rows[1].campaign_name = targeting_df.rows[2].campaign_name
    /\ targeting_df.rows[1].impressions = 1000
    /\ targeting_df.rows[2].impressions = 500
    /\ Len(campaign_summary.table.rows) = 1
    /\ RatioEq(campaign_summary.table.rows[1].ctr, Ratio(70, 1500))
    /\ ~RatioEq(campaign_summary.table.rows[1].ctr, Ratio(1, 20))

\* C12: as stated, a stage given an empty table returns, without raising, an
\* empty table with its canonical columns: for an export without rows the
\* targeting builder returns a table with the TargetAggregate columns and no
\* rows, and the campaign summary that follows does not raise.
C12_AsStated ==
    /\ pc # "crashed"
    /\ (Aggregated /\ DfEmpty(search_term_df)) =>
          /\ targeting_df.rows = <<>>
          /\ TargetingCols \subseteq targeting_df.cols

\* a non-empty prior-week table was supplied
PriorSupplied == prior_week_df # None /\ Len(prior_week_df.rows) > 0

PriorOf(c) ==
    {i \in 1..Len(prior_week_df.rows) : prior_week_df.rows[i].campaign_name = c}

RECURSIVE Gcd(_, _)
Gcd(a, b) == IF b = 0 THEN a ELSE Gcd(b, a % b)

Abs(n) == IF n < 0 THEN 0 - n ELSE n

\* a ratio in lowest terms with a positive denominator
Reduced(r) ==
    LET g == Gcd(Abs(r.num), Abs(r.den))
        sign == IF r.den < 0 THEN 0 - 1 ELSE 1
    IN Ratio(sign * (r.num \div g), sign * (r.den \div g))

\* d = cur - prev for two floats cur, prev
IsDifference(d, cur, prev) ==
    /\ d # None
    /\ d.den # 0
    /\ Reduced(d) = Reduced(Ratio(cur.num * prev.den - prev.num * cur.den,
                                  cur.den * prev.den))

\* C13: the campaign table has delta columns exactly when a non-empty prior
\* table is supplied; then every tracked metric of a campaign that is in both
\* tables has delta = current - prior, a campaign without a prior row has
\* undefined deltas, and the table has the current campaigns and no other.
C13_WowDeltas ==
    Summarized =>
        LET out == campaign_summary.table.rows
            in == targeting_df.rows
        IN /\ campaign_summary.wow_available = PriorSupplied
           /\ campaign_summary.table.cols =
                 SummaryCols \cup (IF PriorSupplied THEN DOMAIN DeltaMetric ELSE {})
           /\ \A i \in 1..Len(out) : DOMAIN out[i] = campaign_summary.table.cols
           /\ {out[i].campaign_name : i \in 1..Len(out)}
                 = {in[i].campaign_name : i \in 1..Len(in)}
           /\ Len(out) = Cardinality({in[i].campaign_name : i \in 1..Len(in)})
           /\ PriorSupplied =>
                 \A i \in 1..Len(out) : \A d \in DOMAIN DeltaMetric :
                     LET m == DeltaMetric[d]
                         before == PriorOf(out[i].campaign_name)
                     IN IF before = {} THEN out[i][d] = None
                        ELSE \A k \in before :
                               LET cur == MetricValue(out[i], m)
                                   prev == MetricValue(prior_week_df.rows[k], m)
                               IN (cur # None /\ prev # None)
                                     => IsDifference(out[i][d], cur, prev)

\* the prior week has Campaign B only (spend 12.00), this week has Campaign A
\* and Campaign B (spend 6.00): B's spend delta is -6.00, A's is undefined
C13_Witness ==
    /\ Summarized
    /\ PriorSupplied
    /\ Len(prior_week_df.rows) = 1
    /\ prior_week_df.rows[1].campaign_name = "Campaign B"
    /\ Len(campaign_summary.table.rows) = 2
    /\ campaign_summary.table.rows[1].campaign_name = "Campaign A"
    /\ campaign_summary.table.rows[1].spend_delta = None
    /\ campaign_summary.table.rows[2].campaign_name = "Campaign B"
    /\ campaign_summary.table.rows[2].spend = 600
    /\ RatioEq(campaign_summary.table.rows[2].spend_delta, Ratio(-600, 1))

AsinsAnalyzed == pc \in {"keywords", "bids", "analysed"}

KeywordsAnalyzed == pc \in {"bids", "analysed"}

BidsRecommended == pc = "analysed"

\* ASINs configured as targets of a product_targeting campaign
ConfiguredAsins ==
    UNION { {config.campaigns[i].targets[k].asin :
                k \in 1..Len(config.campaigns[i].targets)} :
            i \in {j \in 1..Len(config.campaigns) :
                      config.campaigns[j].type = "product_targeting"} }

ProductCampaigns ==
    {config.campaigns[i].name :
        i \in {j \in 1..Len(config.campaigns) :
                  config.campaigns[j].type = "product_targeting"}}

KeywordCampaigns ==
    {config.campaigns[i].name :
        i \in {j \in 1..Len(config.campaigns) :
                  config.campaigns[j].type = "keyword_targeting"}}

\* number of flags of one type for one target
FlagCount(flags, type, target) ==
    Cardinality({k \in 1..Len(flags) : flags[k].type = type /\ flags[k].target = target})

\* C14: as stated, for every targeting table (an empty one included) every
\* configured product-targeting ASIN without a row under a product-targeting
\* campaign gets exactly one zero_activity flag (info) and one
\* zero_activity_targets entry, and an ASIN with such a row gets none.
C14_AsStated ==
    AsinsAnalyzed =>
        \A a \in ConfiguredAsins :
            LET appears == \E i \in 1..Len(targeting_df.rows) :
                              /\ targeting_df.rows[i].campaign_name \in ProductCampaigns
                              /\ targeting_df.rows[i].targeting = a
                flagged == {k \in 1..Len(asin_performance.flags) :
                              /\ asin_performance.flags[k].type = "zero_activity"
                              /\ asin_performance.flags[k].target = a}
                listed == {k \in 1..Len(asin_performance.zero_activity_targets) :
                             asin_performance.zero_activity_targets[k].asin = a}
            IN IF appears
               THEN flagged = {} /\ listed = {}
               ELSE /\ Cardinality(flagged) = 1
                    /\ Cardinality(listed) = 1
                    /\ \A k \in flagged : asin_performance.flags[k].severity = "info"

\* the same statement for the targeting tables that are not empty
C14_NonEmptyTables == DfEmpty(targeting_df) \/ C14_AsStated

\* the configured thresholds, or their defaults: 5.00 in cents and 10
HighSpendThreshold ==
    IF "high_spend_flag" \in DOMAIN config.settings
    THEN config.settings.high_spend_flag ELSE 500

LowImpressionsThreshold ==
    IF "low_impressions_flag" \in DOMAIN config.settings
    THEN config.settings.low_impressions_flag ELSE 10

\* number of rows of a table with one targeting value that satisfy Cond
RowCount(rows, target, Cond(_)) ==
    Cardinality({i \in 1..Len(rows) : rows[i].targeting = target /\ Cond(rows[i])})

FlagSeverity ==
    [high_spend_no_orders |-> "warning", underserving |-> "info",
     zero_activity |-> "info", zero_impressions |-> "info"]

SameRows(out, in) ==
    /\ Len(out) = Len(in)
    /\ \A i \in 1..Len(in) :
          \E k \in 1..Len(out) : \A c \in DOMAIN in[i] : out[k][c] = in[i][c]
    /\ \A k \in 1..Len(out) :
          \E i \in 1..Len(in) : \A c \in DOMAIN in[i] : out[k][c] = in[i][c]

Descending(rows, col) == \A k \in 1..(Len(rows) - 1) : rows[k][col] >= rows[k + 1][col]

ConversionRates(rows) ==
    \A k \in 1..Len(rows) :
        /\ rows[k].conversion_rate.den > 0
        /\ IF rows[k].clicks > 0
           THEN RatioEq(rows[k].conversion_rate, Ratio(rows[k].orders, rows[k].clicks))
           ELSE rows[k].conversion_rate.num = 0

\* C16: the ASIN table holds exactly the targeting rows of the campaigns
\* configured as product_targeting, by descending spend; the keyword table
\* holds exactly the rows of the keyword_targeting campaigns, by descending
\* impressions; every row's conversion_rate is orders/clicks, 0 without clicks.
C16_FilterAndOrder ==
    /\ AsinsAnalyzed =>
          LET out == asin_performance.table.rows
          IN /\ SameRows(out, SelectSeq(targeting_df.rows,
                                        LAMBDA r : r.campaign_name \in ProductCampaigns))
             /\ Descending(out, "spend")
             /\ ConversionRates(out)
    /\ KeywordsAnalyzed =>
          LET out == keyword_performance.table.rows
          IN /\ SameRows(out, SelectSeq(targeting_df.rows,
                                        LAMBDA r : r.campaign_name \in KeywordCampaigns))
             /\ Descending(out, "impressions")
             /\ ConversionRates(out)

\* two ASIN targets given in ascending spend and a keyword row: the ASIN table
\* has the two targets with the larger spend first, the keyword table the third
C16_Witness ==
    /\ KeywordsAnalyzed
    /\ Len(targeting_df.rows) = 3
    /\ targeting_df.rows[1].campaign_name \in ProductCampaigns
    /\ targeting_df.rows[2].campaign_name \in ProductCampaigns
    /\ targeting_df.rows[3].campaign_name \in KeywordCampaigns
    /\ targeting_df.rows[1].spend < targeting_df.rows[2].spend
    /\ Len(asin_performance.table.rows) = 2
    /\ asin_performance.table.rows[1].targeting = targeting_df.rows[2].targeting
    /\ asin_performance.table.rows[2].targeting = targeting_df.rows[1].targeting
    /\ asin_performance.table.rows[1].clicks > 0
    /\ asin_performance.table.rows[1].orders > 0
    /\ Len(keyword_performance.table.rows) = 1
    /\ keyword_performance.table.rows[1].targeting = targeting_df.rows[3].targeting

Drifted == pc = "drifted"

\* match types that read exact / broad once trimmed and lower-cased
ExactTypes == {"exact", "EXACT"}

BroadTypes == {"broad", "Broad "}

\* drift flags of one type for one (campaign, targeting, search term)
DriftFlags(type, r) ==
    {k \in 1..Len(search_term_analysis.drift_flags) :
        /\ search_term_analysis.drift_flags[k].type = type
        /\ search_term_analysis.drift_flags[k].campaign = r.campaign_name
        /\ search_term_analysis.drift_flags[k].targeting = Strip(r.targeting)
        /\ search_term_analysis.drift_flags[k].search_term = Strip(r.search_term)}

\* rows with the trimmed targeting and search term of r that satisfy Cond
DriftRows(r, Cond(_)) ==
    {i \in 1..Len(search_term_df.rows) :
        /\ search_term_df.rows[i].campaign_name = r.campaign_name
        /\ Strip(search_term_df.rows[i].targeting) = Strip(r.targeting)
        /\ Strip(search_term_df.rows[i].search_term) = Strip(r.search_term)
        /\ Cond(search_term_df.rows[i])}

\* C17: a row of match type exact has an exact_match_drift flag (warning) iff
\* its targeting and its search term, both trimmed, are not the same string,
\* letter case included; rows of another match type have none.
C17_ExactDrift ==
    Drifted =>
        /\ \A i \in 1..Len(search_term_df.rows) :
              LET r == search_term_df.rows[i]
              IN /\ Cardinality(DriftFlags("exact_match_drift", r))
                       = Cardinality(DriftRows(r, LAMBDA x :
                             /\ x.match_type \in ExactTypes
                             /\ Strip(x.targeting) # Strip(x.search_term)))
                 /\ (r.match_type \in ExactTypes /\ Strip(r.targeting) = Strip(r.search_term))
                       => DriftFlags("exact_match_drift", r) = {}
        /\ \A k \in 1..Len(search_term_analysis.drift_flags) :
              search_term_analysis.drift_flags[k].type = "exact_match_drift" =>
                  /\ search_term_analysis.drift_flags[k].severity = "warning"
                  /\ search_term_analysis.drift_flags[k].targeting
                        # search_term_analysis.drift_flags[k].search_term

\* exact rows B0AAA on B0AAA (no flag) and B0AAA on b0aaa (drift: the case
\* differs)
C17_Witness ==
    /\ Drifted
    /\ Len(search_term_df.rows) = 2
    /\ search_term_df.rows[1].match_type \in ExactTypes
    /\ search_term_df.rows[2].match_type \in ExactTypes
    /\ search_term_df.rows[1].targeting = "B0AAA"
    /\ search_term_df.rows[1].search_term = "B0AAA"
    /\ search_term_df.rows[2].targeting = "B0AAA"
    /\ search_term_df.rows[2].search_term = "b0aaa"
    /\ Len(search_term_analysis.drift_flags) = 1
    /\ search_term_analysis.drift_flags[1].type = "exact_match_drift"
    /\ search_term_analysis.drift_flags[1].search_term = "b0aaa"

AllDriftFlags(r) ==
    DriftFlags("exact_match_drift", r) \cup DriftFlags("broad_match_expansion", r)

\* C18: as stated, a row of match type phrase or unknown has no drift flag; a
\* row of match type broad has a broad_match_expansion flag (info) iff its
\* search term differs from its targeting and its spend is above 0.50; no row
\* has more than one drift flag.
C18_AsStated ==
    Drifted =>
        \A i \in 1..Len(search_term_df.rows) :
            LET r == search_term_df.rows[i]
            IN /\ Cardinality(DriftFlags("broad_match_expansion", r))
                     = Cardinality(DriftRows(r, LAMBDA x :
                           /\ x.match_type \in BroadTypes
                           /\ Strip(x.search_term) # Strip(x.targeting)
                           /\ x.spend > 50))
               /\ DriftRows(r, LAMBDA x : x.match_type \in ExactTypes \cup BroadTypes) = {}
                     => AllDriftFlags(r) = {}
               /\ Cardinality(AllDriftFlags(r)) <= Cardinality(DriftRows(r, LAMBDA x : TRUE))
               /\ \A k \in DriftFlags("broad_match_expansion", r) :
                     search_term_analysis.drift_flags[k].severity = "info"

\* the same statement with "differs" replaced by the test of the code: the
\* lower-cased targeting is not contained in the lower-cased search term
C18_ContainmentReading ==
    Drifted =>
        \A i \in 1..Len(search_term_df.rows) :
            LET r == search_term_df.rows[i]
            IN /\ Cardinality(DriftFlags("broad_match_expansion", r))
                     = Cardinality(DriftRows(r, LAMBDA x :
                           /\ x.match_type \in BroadTypes
                           /\ Strip(x.search_term) \in {"B0ZZZ", "space opera"}
                           /\ x.spend > 50))
               /\ DriftRows(r, LAMBDA x : x.match_type \in ExactTypes \cup BroadTypes) = {}
                     => AllDriftFlags(r) = {}
               /\ Cardinality(AllDriftFlags(r)) <= Cardinality(DriftRows(r, LAMBDA x : TRUE))

\* the row of the recommendation table for one target of the targeting table
RecRow(r) ==
    bid_recs.table.rows[CHOOSE k \in 1..Len(bid_recs.table.rows) :
                           /\ bid_recs.table.rows[k].campaign_name = r.campaign_name
                           /\ bid_recs.table.rows[k].targeting = r.targeting]

\* max = royalty * (orders / clicks) / acos, royalty in cents
IsMaxBid(max, royalty, r, acos) ==
    /\ max # None
    /\ max.den # 0
    /\ Reduced(max) = Reduced(Ratio(royalty * r.orders * acos.den, r.clicks * acos.num))

\* C19: as stated, every target with orders and clicks has max_profitable_bid
\* = blended_royalty * (orders / clicks) / target_acos, where blended_royalty
\* is 5.00 and target_acos is 0.50 when the configured value is unset or <= 0;
\* a target with no clicks or no orders has no max_profitable_bid.
C19_AsStated ==
    BidsRecommended =>
        LET settings == config.settings
            royalty == IF "blended_royalty" \in DOMAIN settings
                          /\ settings.blended_royalty > 0
                       THEN settings.blended_royalty ELSE 500
            acos == IF "target_acos" \in DOMAIN settings /\ settings.target_acos.num > 0
                    THEN settings.target_acos ELSE Ratio(1, 2)
        IN /\ Len(bid_recs.table.rows) = Len(targeting_df.rows)
           /\ \A i \in 1..Len(targeting_df.rows) :
                 LET r == targeting_df.rows[i]
                 IN IF r.clicks > 0 /\ r.orders > 0
                    THEN IsMaxBid(RecRow(r).max_profitable_bid, royalty, r, acos)
                    ELSE RecRow(r).max_profitable_bid = None

\* the same statement with the royalty as configured whenever it is configured
C19_RoyaltyAsConfigured ==
    BidsRecommended =>
        LET settings == config.settings
            royalty == IF "blended_royalty" \in DOMAIN settings
                       THEN settings.blended_royalty ELSE 500
            acos == IF "target_acos" \in DOMAIN settings /\ settings.target_acos.num > 0
                    THEN settings.target_acos ELSE Ratio(1, 2)
        IN /\ Len(bid_recs.table.rows) = Len(targeting_df.rows)
           /\ \A i \in 1..Len(targeting_df.rows) :
                 LET r == targeting_df.rows[i]
                 IN IF r.clicks > 0 /\ r.orders > 0
                    THEN IsMaxBid(RecRow(r).max_profitable_bid, royalty, r, acos)
                    ELSE RecRow(r).max_profitable_bid = None

\* the flags recommend_bids raised for one target
BidFlagsOf(r) ==
    {k \in 1..Len(bid_recs.flags) :
        /\ bid_recs.flags[k].target = r.targeting
        /\ bid_recs.flags[k].campaign = r.campaign_name}

\* the bid of a target, None when the table has no bid column
CurrentBid(r) == IF "bid" \in targeting_df.cols THEN r.bid ELSE None

\* the flag type the priority order gives a target ("" for none)
ExpectedBidFlag(r, bid, max) ==
    IF r.impressions = 0 /\ r.clicks = 0 THEN "no_data"
    ELSE IF r.clicks > 0 /\ r.orders = 0 THEN "no_conversions"
    ELSE IF bid # None /\ max # None /\ bid.num * max.den > max.num * bid.den
         THEN "bid_above_profitable"
    ELSE IF bid # None /\ max # None /\ 2 * bid.num * max.den < max.num * bid.den
         THEN "bid_below_range"
    ELSE ""

\* C20: each target gets at most one bid flag, the first that applies of
\* no_data (impressions = 0 and clicks = 0), no_conversions (clicks > 0 and
\* orders = 0), bid_above_profitable (a bid exists and bid > max) and
\* bid_below_range (bid < 0.5 * max); a bid with 0.5 * max <= bid <= max
\* gets no flag.
C20_BidFlagPriority ==
    BidsRecommended =>
        \A i \in 1..Len(targeting_df.rows) :
            LET r == targeting_df.rows[i]
                expected == ExpectedBidFlag(r, CurrentBid(r), RecRow(r).max_profitable_bid)
            IN /\ Cardinality(BidFlagsOf(r)) <= 1
               /\ (expected = "") <=> (BidFlagsOf(r) = {})
               /\ \A k \in BidFlagsOf(r) : bid_recs.flags[k].type = expected

\* a target with max_profitable_bid 0.50 and bid 0.60 flagged
\* bid_above_profitable beside a target without data flagged no_data
C20_Witness ==
    /\ BidsRecommended
    /\ \E i, j \in 1..Len(targeting_df.rows) :
          LET r == targeting_df.rows[i]
              q == targeting_df.rows[j]
          IN /\ r.bid = Ratio(60, 1)
             /\ RecRow(r).max_profitable_bid # None
             /\ Reduced(RecRow(r).max_profitable_bid) = Ratio(50, 1)
             /\ \E k \in BidFlagsOf(r) : bid_recs.flags[k].type = "bid_above_profitable"
             /\ q.impressions = 0 /\ q.clicks = 0
             /\ \E k \in BidFlagsOf(q) : bid_recs.flags[k].type = "no_data"

NumericSummaryCols == {"impressions", "clicks", "spend", "orders"}

\* a search term and the display names an ASIN can get
DisplayNames(t) == {t} \cup (IF is_asin(t) THEN {TitledName(t), UnknownName(t)} ELSE {})

\* C21: apply_asin_resolution leaves the number and order of the drift flags
\* and their type, severity, campaign, impressions and spend unchanged, and
\* leaves the summary's columns, row count, row order and numeric columns
\* unchanged; a summary row keeps its search term or gets its display name.
C21_ResolutionFrame ==
    [][ResolveAsins =>
        LET before == search_term_analysis
            after == search_term_analysis'
        IN /\ Len(after.drift_flags) = Len(before.drift_flags)
           /\ \A k \in 1..Len(before.drift_flags) :
                 \A f \in {"type", "severity", "campaign", "impressions", "spend"} :
                     after.drift_flags[k][f] = before.drift_flags[k][f]
           /\ after.summary.cols = before.summary.cols
           /\ Len(after.summary.rows) = Len(before.summary.rows)
           /\ \A i \in 1..Len(before.summary.rows) :
                 /\ \A c \in NumericSummaryCols :
                       after.summary.rows[i][c] = before.summary.rows[i][c]
                 /\ after.summary.rows[i].search_term
                       \in DisplayNames(before.summary.rows[i].search_term)
           /\ after.grouped = before.grouped]_vars

\* a resolved result: the exact-drift flag of B0AAA on B0ZZZ carries the
\* rewritten message and the summary shows the display name
C21_Witness ==
    /\ pc = "resolved"
    /\ \E k \in 1..Len(search_term_analysis.drift_flags) :
          LET flag == search_term_analysis.drift_flags[k]
          IN /\ flag.type = "exact_match_drift"
             /\ flag.search_term = "B0ZZZ"
             /\ flag.message.text = "Exact Match Drift"
             /\ flag.message.search_term = "Nemesis (B0ZZZ)"
    /\ Len(search_term_analysis.summary.rows) = 2
    /\ \E i \in 1..2 : search_term_analysis.summary.rows[i].search_term = "Nemesis (B0ZZZ)"
    /\ \E i \in 1..2 : search_term_analysis.summary.rows[i].search_term = "fantasy books"

(***************************************************************************)
(* Properties of the loaders.                                              *)
(***************************************************************************)
Loaded_by(name) == pc = "loaded" /\ loaded.by = name

KdpLoaded == Loaded_by("load_kdp_report") \/ Loaded_by("load_kdp_orders")

\* C22: as stated, every row retained by load_kdp_report or load_kdp_orders
\* has the marketplace Amazon.com; a row of Amazon.com.mx or Amazon.com.au is
\* not retained.
C22_AsStated ==
    (KdpLoaded /\ ~IsError(loaded.df) /\ "marketplace" \in loaded.df.cols) =>
        \A i \in 1..Len(loaded.df.rows) : loaded.df.rows[i].marketplace = Str("Amazon.com")

\* what the loaders guarantee: every retained row has a marketplace whose name
\* contains Amazon.com
C22_ContainsHome ==
    (KdpLoaded /\ ~IsError(loaded.df) /\ "marketplace" \in loaded.df.cols) =>
        \A i \in 1..Len(loaded.df.rows) :
            loaded.df.rows[i].marketplace
                \in {Str("Amazon.com"), Str("Amazon.com.mx"), Str("Amazon.com.au")}

\* the marker test of the loader that ran
IsMarkerLine(line) ==
    IF export.kind = "search_csv" THEN LineContains(line, CSV_HEADER_MARKER)
    ELSE IsKdpHeader(line)

\* 0-based indexes of the lines among the first 10 that carry the marker
MarkerLines ==
    {i \in 0..(Len(export.lines) - 1) : i < 10 /\ IsMarkerLine(export.lines[i + 1])}

CsvLoaded ==
    /\ export.kind \in {"search_csv", "kdp_csv"}
    /\ Loaded_by("load_search_term_report") \/ Loaded_by("load_kdp_report")

\* C23: as stated, the header row of a CSV export is the first of its first
\* 10 lines that contains the marker; when none of them does, loading fails
\* and returns no table.
C23_AsStated ==
    CsvLoaded =>
        IF MarkerLines = {}
        THEN IsError(loaded.df)
        ELSE /\ loaded.header_row \in MarkerLines
             /\ \A i \in MarkerLines : loaded.header_row <= i

\* what the loaders do: the first marker line of the first 10 is the header
\* row, and line 0 is when there is none
C23_FirstMarkerOrLineZero ==
    CsvLoaded =>
        IF MarkerLines = {}
        THEN loaded.header_row = 0
        ELSE /\ loaded.header_row \in MarkerLines
             /\ \A i \in MarkerLines : loaded.header_row <= i

\* C24: as stated, no loader raises on a numeric cell that cannot be parsed.
C24_AsStated ==
    pc = "loaded" => ~(IsError(loaded.df) /\ loaded.df.error = "ValueError")

\* the data lines of a search-term CSV whose header is its first line
SearchData == SubSeq(export.lines, 2, Len(export.lines))

\* what the loaders do for counts: an impressions cell that is no number
\* reads 0 and its row is kept, whenever the load does not raise
C24_CountsCoerced ==
    (/\ Loaded_by("load_search_term_report")
     /\ Len(export.lines) >= 1
     /\ export.lines[1] = SearchHeader
     /\ ~IsError(loaded.df)) =>
        /\ Len(loaded.df.rows) = Len(SearchData)
        /\ \A i \in 1..Len(SearchData) :
              ~IsPlainNumber(SearchData[i][3]) => loaded.df.rows[i].impressions = Num(0)

\* the load raises ValueError exactly when a currency or percentage column
\* stored as strings holds a cell that is no number once its symbols are gone
C24_RaisesOnText ==
    (/\ Loaded_by("load_search_term_report")
     /\ Len(export.lines) >= 1
     /\ export.lines[1] = SearchHeader) =>
        ((IsError(loaded.df) /\ loaded.df.error = "ValueError")
            <=> \E i \in 1..Len(SearchData) : SearchData[i][4] \in {"abc", "$abc"}
                                               \/ SearchData[i][5] = "n/a%")

(***************************************************************************)
(* Properties of the breakdowns.                                           *)
(***************************************************************************)
\* C25: as stated, a reconciliation of a table classified monthly has no
\* by-date breakdown.
C25_AsStated ==
    (Reconciled /\ kdp_recon.granularity = "monthly") => DfEmpty(kdp_recon.daily_breakdown)

\* what reconcile_kdp_sales returns: a breakdown by date, title and format
\* whenever rows are retained, whatever the granularity
C25_BreakdownWheneverRetained ==
    Reconciled =>
        (DfEmpty(kdp_recon.daily_breakdown) <=> DfEmpty(kdp_recon.df))

\* the units and the royalty summed over a breakdown
BreakdownUnits(t) == ColSum(t.rows, "units")

BreakdownRoyalty(t) == ColSum(t.rows, "royalty")

Conserves(t) ==
    /\ BreakdownUnits(t) = kdp_recon.totals.kdp_units
    /\ BreakdownRoyalty(t) = kdp_recon.totals.kdp_royalty

\* C29: as stated, the units and the royalty summed over title_totals, over
\* format_totals and over title_format_breakdown equal totals.kdp_units and
\* totals.kdp_royalty, rows with a missing title or format included.
C29_AsStated ==
    Reconciled =>
        /\ Conserves(kdp_recon.title_totals)
        /\ Conserves(kdp_recon.format_totals)
        /\ Conserves(kdp_recon.title_format_breakdown)

\* a retained row lacks the title, or lacks the format
MissingTitle == \E i \in 1..Len(kdp_recon.df.rows) : kdp_recon.df.rows[i].title = MissingText

MissingFormat ==
    \/ "format" \notin kdp_recon.df.cols
    \/ \E i \in 1..Len(kdp_recon.df.rows) : kdp_recon.df.rows[i].format = MissingText

\* what the breakdowns conserve: each one the totals of the retained rows
\* that have all of its keys
C29_CompleteKeysConserve ==
    Reconciled =>
        /\ ~MissingTitle => Conserves(kdp_recon.title_totals)
        /\ ~MissingFormat => Conserves(kdp_recon.format_totals)
        /\ (~MissingTitle /\ ~MissingFormat) => Conserves(kdp_recon.title_format_breakdown)

\* C30: as stated, every paired purchase of the result is dated inside the
\* reported week, week_start and week_end included.
C30_AsStated ==
    Reconciled =>
        \A i \in 1..Len(kdp_recon.paired_purchases) :
            /\ WeekStart <= ToDatetime(kdp_recon.paired_purchases[i].date)
            /\ ToDatetime(kdp_recon.paired_purchases[i].date) <= WeekEnd

\* what the detection does: the dates come from the whole order table
C30_DatesOfTheOrderTable ==
    Reconciled =>
        \A i \in 1..Len(kdp_recon.paired_purchases) :
            \E k \in 1..Len(kdp_orders_df.rows) :
                kdp_orders_df.rows[k].date = ToDatetime(kdp_recon.paired_purchases[i].date)

(***************************************************************************)
(* The snapshot store: schema, statements and transactions (SQLite).       *)
(***************************************************************************)
ChildTables == {"campaign_metrics", "target_metrics", "search_term_metrics",
                "kdp_daily_sales", "bid_recommendations"}

Tables == {"weekly_snapshots"} \cup ChildTables

\* the schema as get_connection creates it: no row, no id handed out yet
EmptyDb ==
    [weekly_snapshots |-> {}, campaign_metrics |-> {}, target_metrics |-> {},
     search_term_metrics |-> {}, kdp_daily_sales |-> {}, bid_recommendations |-> {},
     sqlite_sequence |-> [t \in Tables |-> 0]]

\* the UNIQUE constraint of each table; the id where the table has none
UniqueKey ==
    [weekly_snapshots |-> {"week_start"},
     campaign_metrics |-> {"snapshot_id", "campaign_name"},
     target_metrics |-> {"snapshot_id", "campaign_name", "targeting"},
     search_term_metrics |-> {"id"},
     kdp_daily_sales |-> {"snapshot_id", "date", "title", "format"},
     bid_recommendations |-> {"id"}]

\* the NOT NULL text columns of each table that are bound from a table cell
\* (ids, week bounds and str(date) are always bound to a value)
NotNull ==
    [weekly_snapshots |-> {},
     campaign_metrics |-> {"campaign_name"},
     target_metrics |-> {"campaign_name", "targeting", "target_type"},
     search_term_metrics |-> {"campaign_name", "targeting", "search_term"},
     kdp_daily_sales |-> {"title", "format"},
     bid_recommendations |-> {"targeting"}]

\* a missing cell (NaN) is bound as NULL
IsNull(v) == v = MissingText

SnapshotIds(d) == {s.id : s \in d.weekly_snapshots}

\* a connection with its open transaction: the content it sees, whether a
\* statement has raised, and cursor.lastrowid
Begin(d) == [db |-> d, raised |-> FALSE, lastrowid |-> 0, snapshot_id |-> 0]

Raise(t) == [t EXCEPT !.raised = TRUE]

\* INSERT [OR REPLACE] INTO table, with foreign keys enforced
Insert(t, table, values, or_replace) ==
    LET d == t.db
        id == d.sqlite_sequence[table] + 1
        row == values @@ [id |-> id]
        clash == {r \in d[table] : \A c \in UniqueKey[table] : r[c] = row[c]}
    IN IF t.raised THEN t
       ELSE IF \E c \in NotNull[table] : IsNull(values[c]) THEN Raise(t)
       ELSE IF table \in ChildTables /\ values.snapshot_id \notin SnapshotIds(d)
       THEN Raise(t)
       ELSE IF clash # {} /\ ~or_replace THEN Raise(t)
       ELSE [t EXCEPT !.db = [d EXCEPT ![table] = (d[table] \ clash) \cup {row},
                                       !.sqlite_sequence[table] = id],
                      !.lastrowid = id]

RECURSIVE InsertAll(_, _, _, _)
InsertAll(t, table, rows, or_replace) ==
    IF rows = <<>> THEN t
    ELSE InsertAll(Insert(t, table, Head(rows), or_replace), table, Tail(rows), or_replace)

\* DELETE FROM child_table WHERE snapshot_id = ?
DeleteChildren(t, table, snapshot_id) ==
    IF t.raised THEN t
    ELSE [t EXCEPT !.db[table] = {r \in @ : r.snapshot_id # snapshot_id}]

\* DELETE FROM weekly_snapshots WHERE id = ?, refused while a child row refers to it
DeleteSnapshot(t, id) ==
    IF t.raised THEN t
    ELSE IF \E table \in ChildTables : \E r \in t.db[table] : r.snapshot_id = id
    THEN Raise(t)
    ELSE [t EXCEPT !.db.weekly_snapshots = {s \in @ : s.id # id}]

\* a rollback that leaves the statements already executed in place
RollbackKeepsWrites(committed, uncommitted) == uncommitted

\* conn.rollback() gives back the content of the last commit
Rollback(committed, uncommitted) == committed

\* conn.commit()
Commit(uncommitted) == uncommitted

\* row.get(col, default) on a row of the table df
Cell(df, row, col, default) == IF col \in df.cols THEN row[col] ELSE default

StrDateLess(a, b) == a # b /\ StrDateLeq(a, b)

(***************************************************************************)
(* save_weekly_snapshot                                                    *)
(***************************************************************************)
\* SELECT id FROM weekly_snapshots WHERE week_start = ?
ExistingSnapshot(d, week_start) == {s \in d.weekly_snapshots : s.week_start = week_start}

\* the clean-up that drops the snapshot row alone, its child rows left behind
CleanupSnapshotRowOnly(t, week_start) ==
    LET existing == ExistingSnapshot(t.db, week_start)
    IN IF existing = {} \/ t.raised THEN t
       ELSE [t EXCEPT !.db.weekly_snapshots = @ \ existing]

Cleanup(t, week_start) ==
    LET existing == ExistingSnapshot(t.db, week_start)
    IN IF existing = {} THEN t
       ELSE LET old_id == (CHOOSE s \in existing : TRUE).id
                t1 == DeleteChildren(t, "campaign_metrics", old_id)
                t2 == DeleteChildren(t1, "target_metrics", old_id)
                t3 == DeleteChildren(t2, "search_term_metrics", old_id)
                t4 == DeleteChildren(t3, "kdp_daily_sales", old_id)
                t5 == DeleteChildren(t4, "bid_recommendations", old_id)
            IN DeleteSnapshot(t5, old_id)

InsertSnapshot(t, week_start, week_end) ==
    Insert(t, "weekly_snapshots", [week_start |-> week_start, week_end |-> week_end], FALSE)

CampaignMetricsValues(snapshot_id, table, row) ==
    [snapshot_id |-> snapshot_id,
     campaign_name |-> row.campaign_name,
     impressions |-> Cell(table, row, "impressions", 0),
     clicks |-> Cell(table, row, "clicks", 0),
     spend |-> Cell(table, row, "spend", 0),
     sales |-> Cell(table, row, "sales", 0),
     orders |-> Cell(table, row, "orders", 0),
     ctr |-> Cell(table, row, "ctr", Zero),
     avg_cpc |-> Cell(table, row, "avg_cpc", Zero),
     acos |-> Cell(table, row, "acos", None),
     roas |-> Cell(table, row, "roas", None)]

\* ten characters, the first a digit or the first two "B0"
TargetType(targeting_val) ==
    IF targeting_val \in {"B0AAA", "B0BBB", "B0ZZZ"} THEN "asin" ELSE "keyword"

TargetMetricsValues(snapshot_id, df, row) ==
    LET clicks == Cell(df, row, "clicks", 0)
    IN [snapshot_id |-> snapshot_id,
        campaign_name |-> Cell(df, row, "campaign_name", ""),
        targeting |-> Cell(df, row, "targeting", ""),
        target_type |-> TargetType(Cell(df, row, "targeting", "")),
        match_type |-> Cell(df, row, "match_type", ""),
        bid |-> Cell(df, row, "bid", None),
        impressions |-> Cell(df, row, "impressions", 0),
        clicks |-> clicks,
        spend |-> Cell(df, row, "spend", 0),
        sales |-> Cell(df, row, "sales", 0),
        orders |-> Cell(df, row, "orders", 0),
        ctr |-> Cell(df, row, "ctr", Zero),
        cpc |-> Cell(df, row, "cpc", Zero),
        conversion_rate |-> IF clicks > 0 THEN Ratio(Cell(df, row, "orders", 0), clicks)
                            ELSE Zero]

DriftKeys(drift_flags) ==
    {<<drift_flags[i].campaign, drift_flags[i].targeting, drift_flags[i].search_term>> :
        i \in 1..Len(drift_flags)}

SearchTermMetricsValues(snapshot_id, df, row, drift_keys) ==
    LET campaign == Cell(df, row, "campaign_name", "")
        targeting == Cell(df, row, "targeting", "")
        search_term == Cell(df, row, "search_term", "")
    IN [snapshot_id |-> snapshot_id,
        campaign_name |-> campaign,
        targeting |-> targeting,
        search_term |-> search_term,
        match_type |-> Cell(df, row, "match_type", ""),
        impressions |-> Cell(df, row, "impressions", 0),
        clicks |-> Cell(df, row, "clicks", 0),
        spend |-> Cell(df, row, "spend", 0),
        sales |-> Cell(df, row, "sales", 0),
        orders |-> Cell(df, row, "orders", 0),
        is_drift |-> IF <<campaign, targeting, search_term>> \in drift_keys THEN 1 ELSE 0]

\* the royalty rows dated within the snapshot's window
KdpFiltered(df, week_start, week_end) ==
    IF ~DfEmpty(df) /\ "date" \in df.cols
    THEN [cols |-> df.cols \cup {"_date_str"},
          rows |-> SelectSeq([i \in 1..Len(df.rows) |->
                                 df.rows[i] @@ [_date_str |-> Strftime(df.rows[i].date)]],
                             LAMBDA r : /\ r.date # NaT
                                        /\ StrDateLeq(week_start, r._date_str)
                                        /\ StrDateLeq(r._date_str, week_end))]
    ELSE df

KdpDailySalesValues(snapshot_id, df, row, units_col) ==
    [snapshot_id |-> snapshot_id,
     date |-> IF "date" \in df.cols THEN Strftime(row.date) ELSE Strftime(NaT),
     title |-> Cell(df, row, "title", ""),
     format |-> Cell(df, row, "format", ""),
     units_sold |-> Cell(df, row, "units_sold", 0),
     net_units_sold |-> Cell(df, row, units_col, 0),
     royalty |-> Cell(df, row, "royalty", 0)]

\* {f["target"]: f.get("type", "")}: the last flag of a target wins
FlagLookup(bid_flags, targeting) ==
    LET hits == {i \in 1..Len(bid_flags) : bid_flags[i].target = targeting}
    IN IF hits = {} THEN None
       ELSE bid_flags[CHOOSE i \in hits : \A j \in hits : j <= i].type

BidRecommendationsValues(snapshot_id, table, row, bid_flags) ==
    [snapshot_id |-> snapshot_id,
     targeting |-> Cell(table, row, "targeting", ""),
     current_bid |-> Cell(table, row, "current_bid", None),
     recommended_max_bid |-> Cell(table, row, "max_profitable_bid", None),
     conversion_rate |-> Cell(table, row, "conversion_rate", Zero),
     flag |-> FlagLookup(bid_flags, Cell(table, row, "targeting", ""))]

\* the statements of one save, in groups: the lookup with the clean-up, the
\* snapshot row, the five child tables, the commit
NStatements == 8

SaveArgs(week_start, week_end, targeting, search_terms, kdp, summary, bids, drift_flags) ==
    [week_start |-> week_start, week_end |-> week_end, targeting_df |-> targeting,
     search_term_df |-> search_terms, kdp_df |-> kdp, campaign_summary |-> summary,
     bid_recommendations |-> bids, drift_flags |-> drift_flags]

Statement(k, t, a) ==
    LET snapshot_id == t.snapshot_id
        summary_table == Get(a.campaign_summary, "table", EmptyDf)
        kdp_filtered == KdpFiltered(a.kdp_df, a.week_start, a.week_end)
        units_col == IF "net_units_sold" \in a.kdp_df.cols THEN "net_units_sold"
                     ELSE "units_sold"
        bid_table == Get(a.bid_recommendations, "table", EmptyDf)
        bid_flags == Get(a.bid_recommendations, "flags", <<>>)
        inserted == InsertSnapshot(t, a.week_start, a.week_end)
    IN CASE k = 1 -> Cleanup(t, a.week_start)
         [] k = 2 -> [inserted EXCEPT !.snapshot_id = inserted.lastrowid]
         [] k = 3 -> InsertAll(t, "campaign_metrics",
                          [i \in 1..Len(summary_table.rows) |->
                              CampaignMetricsValues(snapshot_id, summary_table,
                                                    summary_table.rows[i])], TRUE)
         [] k = 4 -> InsertAll(t, "target_metrics",
                          [i \in 1..Len(a.targeting_df.rows) |->
                              TargetMetricsValues(snapshot_id, a.targeting_df,
                                                  a.targeting_df.rows[i])], TRUE)
         [] k = 5 -> InsertAll(t, "search_term_metrics",
                          [i \in 1..Len(a.search_term_df.rows) |->
                              SearchTermMetricsValues(snapshot_id, a.search_term_df,
                                                      a.search_term_df.rows[i],
                                                      DriftKeys(a.drift_flags))], FALSE)
         [] k = 6 -> InsertAll(t, "kdp_daily_sales",
                          [i \in 1..Len(kdp_filtered.rows) |->
                              KdpDailySalesValues(snapshot_id, kdp_filtered,
                                                  kdp_filtered.rows[i], units_col)], TRUE)
         [] k = 7 -> InsertAll(t, "bid_recommendations",
                          [i \in 1..Len(bid_table.rows) |->
                              BidRecommendationsValues(snapshot_id, bid_table,
                                                       bid_table.rows[i], bid_flags)], FALSE)
         [] OTHER -> t

\* the transaction after the first k groups, the group fail_at raising
RECURSIVE Execute(_, _, _, _)
Execute(d, a, k, fail_at) ==
    IF k = 0 THEN Begin(d)
    ELSE LET t == Execute(d, a, k - 1, fail_at)
         IN IF t.raised THEN t
            ELSE IF fail_at = k THEN Raise(t)
            ELSE Statement(k, t, a)

\* what the call leaves in the database, whether it raised, and what it returned
save_weekly_snapshot(d, a, fail_at) ==
    LET t == Execute(d, a, NStatements, fail_at)
    IN IF t.raised
       THEN [db |-> Rollback(d, t.db), raised |-> TRUE, snapshot_id |-> 0]
       ELSE [db |-> Commit(t.db), raised |-> FALSE, snapshot_id |-> t.snapshot_id]

(***************************************************************************)
(* get_prior_week_summary                                                  *)
(***************************************************************************)
RECURSIVE OrderById(_)
OrderById(rows) ==
    IF rows = {} THEN <<>>
    ELSE LET first == CHOOSE r \in rows : \A q \in rows : r.id <= q.id
         IN <<first>> \o OrderById(rows \ {first})

\* WHERE week_start < ? ORDER BY week_start DESC LIMIT 1
MostRecentBefore(d, current_week) ==
    LET before == {s \in d.weekly_snapshots : StrDateLess(s.week_start, current_week)}
    IN IF before = {} THEN None
       ELSE CHOOSE s \in before : \A q \in before : StrDateLeq(q.week_start, s.week_start)

get_prior_week_summary(d, current_week) ==
    LET row == MostRecentBefore(d, current_week)
    IN IF row = None THEN None
       ELSE LET df == [cols |-> SummaryCols,
                       rows |-> [i \in 1..Cardinality({r \in d.campaign_metrics :
                                                          r.snapshot_id = row.id}) |->
                                   Project(OrderById({r \in d.campaign_metrics :
                                                         r.snapshot_id = row.id})[i],
                                           SummaryCols)]]
            IN IF DfEmpty(df) THEN None ELSE df

(***************************************************************************)
(* The report command run with the snapshot store.                         *)
(***************************************************************************)
DaysInMonth(y, m) ==
    CASE m \in {4, 6, 9, 11} -> 30
      [] m = 2 -> IF y % 4 = 0 /\ (y % 100 # 0 \/ y % 400 = 0) THEN 29 ELSE 28
      [] OTHER -> 31

\* date - timedelta(days=n)
RECURSIVE MinusDays(_, _)
MinusDays(d, n) ==
    LET y == d \div 10000
        m == (d \div 100) % 100
    IN IF n = 0 THEN d
       ELSE IF DayOf(d) > 1 THEN MinusDays(d - 1, n - 1)
       ELSE IF m > 1 THEN MinusDays(y * 10000 + (m - 1) * 100 + DaysInMonth(y, m - 1), n - 1)
       ELSE MinusDays((y - 1) * 10000 + 1231, n - 1)

\* the --week option: pull dates a week apart, and one across a month's end
PullDates == {<<2024, 1, 10>>, <<2024, 1, 17>>, <<2024, 2, 3>>}

StoreConfig == ConfigOf(NoSettings, Campaigns(Ratio(60, 1)))

KdpSale(d, title) ==
    [date |-> d, title |-> title, format |-> "ebook", units_sold |-> 101,
     net_units_sold |-> 100, royalty |-> 27500]

\* the exports of a run: one campaign with sales in two weeks; two campaigns
\* with a royalty row that has no title in the second week
StoreExports ==
    { [search_terms |->
          <<SearchTermRow("Campaign A", "B0AAA", "B0AAA", 20240103, 20240109, Metrics1)>>,
       kdp |-> [cols |-> KdpCols,
                rows |-> <<KdpSale(20240103, "Ascension"), KdpSale(20240110, "Ascension"),
                           KdpSale(NaT, "Ascension")>>]],
      [search_terms |->
          <<SearchTermRow("Campaign A", "B0AAA", "B0AAA", 20240103, 20240109, Metrics3),
            SearchTermRow("Campaign B", "B0BBB", "B0ZZZ", 20240103, 20240109, Metrics3)>>,
       kdp |-> [cols |-> KdpCols,
                rows |-> <<KdpSale(20240109, "Descent"), KdpSale(20240201, "Ascension"),
                           KdpSale(20240110, MissingText)>>]] }

NoRun == [n |-> 0, week |-> <<>>, save |-> FALSE, no_terminal |-> FALSE,
          terminal |-> FALSE, markdown |-> FALSE, echo |-> ""]

\* report, from the options to the end of the analysis
StartReport ==
    /\ pc = "report"
    /\ run.n < MaxRuns
    /\ \E pull \in PullDates, data \in StoreExports, save \in BOOLEAN, no_terminal \in BOOLEAN :
         LET pull_date == ToDatetime(pull)
             week_end_str == Strftime(MinusDays(pull_date, 1))
             week_start_str == Strftime(MinusDays(pull_date, 7))
             terms == [cols |-> BaseCols \cup DateCols, rows |-> data.search_terms]
             targeting == EnrichBids(build_targeting_from_search_terms(terms), StoreConfig)
             prior == IF save THEN get_prior_week_summary(db, pull) ELSE None
             summary == generate_campaign_summary(targeting, prior)
         IN /\ run' = [n |-> run.n + 1, week |-> pull, save |-> save,
                       no_terminal |-> no_terminal, terminal |-> FALSE,
                       markdown |-> FALSE, echo |-> ""]
            /\ config' = StoreConfig
            /\ week' = <<week_start_str, week_end_str>>
            /\ search_term_df' = terms
            /\ targeting_df' = targeting
            /\ kdp_df' = data.kdp
            /\ prior_week_df' = prior
            /\ campaign_summary' = summary
            /\ asin_performance' = analyze_asin_targets(targeting, StoreConfig)
            /\ keyword_performance' = analyze_keywords(targeting, StoreConfig)
            /\ search_term_analysis' = analyze_search_terms(terms, StoreConfig)
            /\ kdp_recon' = reconcile_kdp_sales(data.kdp, summary, week_start_str,
                                                week_end_str, EmptyDf, StoreConfig)
            /\ bid_recs' = recommend_bids(targeting, StoreConfig)
    /\ pc' = "render"
    /\ UNCHANGED <<kdp_orders_df, files, export, loaded, db>>

\* render_full_report unless --no-terminal, then write_weekly_report
Render ==
    /\ pc = "render"
    /\ run' = [run EXCEPT !.terminal = ~run.no_terminal, !.markdown = TRUE]
    /\ pc' = "save"
    /\ UNCHANGED <<reconVars, pipeVars, analysisVars, export, loaded, db>>

ReportSaveArgs ==
    SaveArgs(week[1], week[2], targeting_df, search_term_df, kdp_df, campaign_summary,
             bid_recs, Get(search_term_analysis, "drift_flags", <<>>))

SaveSnapshot ==
    /\ pc = "save"
    /\ run.save
    /\ LET saved == save_weekly_snapshot(db, ReportSaveArgs, 0)
       IN /\ ~saved.raised
          /\ db' = saved.db
          /\ run' = [run EXCEPT !.echo = "Snapshot saved to database."]
    /\ pc' = "report"
    /\ UNCHANGED <<reconVars, pipeVars, analysisVars, export, loaded>>

\* a statement group raises, by a constraint or by a fault of the database
SaveSnapshotFails ==
    /\ pc = "save"
    /\ run.save
    /\ \E fail_at \in 0..NStatements :
         LET saved == save_weekly_snapshot(db, ReportSaveArgs, fail_at)
         IN /\ saved.raised
            /\ db' = saved.db
            /\ run' = [run EXCEPT !.echo = "Warning: Failed to save snapshot"]
    /\ pc' = "report"
    /\ UNCHANGED <<reconVars, pipeVars, analysisVars, export, loaded>>

SkipSave ==
    /\ pc = "save"
    /\ ~run.save
    /\ pc' = "report"
    /\ UNCHANGED <<reconVars, pipeVars, analysisVars, ioVars>>

InitStore ==
    /\ db = EmptyDb
    /\ run = NoRun
    /\ export = None
    /\ loaded = None
    /\ PipeIdle
    /\ AnalysisIdle
    /\ campaign_summary = None
    /\ config = StoreConfig
    /\ kdp_recon = None
    /\ kdp_df = EmptyDf
    /\ kdp_orders_df = EmptyDf
    /\ week = <<<<2024, 1, 3>>, <<2024, 1, 9>>>>
    /\ pc = "report"

NextStore == StartReport \/ Render \/ SaveSnapshot \/ SaveSnapshotFails \/ SkipSave

SpecStore == InitStore /\ [][NextStore]_vars

(***************************************************************************)
(* Properties of the snapshot store.                                       *)
(***************************************************************************)
\* the report has looked up its prior period and not yet saved
PriorLookedUp == pc = "render" /\ run.save

\* the saved snapshots whose week starts strictly before the date day
SnapshotsBefore(day) == {s \in db.weekly_snapshots : StrDateLess(s.week_start, day)}

\* the campaign rows stored for the snapshot s, without the keys of the store
StoredCampaigns(s) ==
    {Project(r, SummaryCols) : r \in {q \in db.campaign_metrics : q.snapshot_id = s.id}}

\* the prior-period table is the stored campaign table of the latest snapshot
\* that starts strictly before day, and there is none when no snapshot does
\* or when that snapshot stored no campaign
PriorIsLatestBefore(day) ==
    LET before == SnapshotsBefore(day)
    IN IF before = {} THEN prior_week_df = None
       ELSE LET latest == CHOOSE s \in before :
                              \A q \in before : StrDateLeq(q.week_start, s.week_start)
            IN IF StoredCampaigns(latest) = {} THEN prior_week_df = None
               ELSE /\ prior_week_df # None
                    /\ {prior_week_df.rows[i] : i \in 1..Len(prior_week_df.rows)}
                           = StoredCampaigns(latest)

\* C26: as stated, the prior-period table of a report run with --save whose
\* week starts at W comes from the saved snapshot with the greatest week_start
\* strictly earlier than W, so never from a snapshot saved for W itself.
C26_AsStated == PriorLookedUp => PriorIsLatestBefore(week[1])

\* what the report does: the snapshot with the greatest week_start strictly
\* earlier than the pull date, which is seven days after W
C26_LatestBeforePullDate == PriorLookedUp => PriorIsLatestBefore(run.week)

\* the rows of a child table stored for the snapshot s, without the keys of the store
StoredFor(table, s, cols) ==
    {Project(r, cols) : r \in {q \in db[table] : q.snapshot_id = s.id}}

RowsOf(df, cols) == {Project(df.rows[i], cols) : i \in 1..Len(df.rows)}

SaveReported == pc = "report" /\ run.echo = "Snapshot saved to database."

\* the royalty rows of the run dated within its week
RoyaltyRowsOfTheWeek ==
    {[date |-> Strftime(kdp_df.rows[i].date), title |-> kdp_df.rows[i].title,
      format |-> kdp_df.rows[i].format, units_sold |-> kdp_df.rows[i].units_sold,
      net_units_sold |-> kdp_df.rows[i].net_units_sold,
      royalty |-> kdp_df.rows[i].royalty] :
        i \in {j \in 1..Len(kdp_df.rows) :
                 /\ kdp_df.rows[j].date # NaT
                 /\ ToDatetime(week[1]) <= kdp_df.rows[j].date
                 /\ kdp_df.rows[j].date <= ToDatetime(week[2])}}

\* the store holds for the week of the run what the run computed
HoldsTheRun(s) ==
    /\ s.week_end = week[2]
    /\ StoredFor("campaign_metrics", s, SummaryCols)
           = RowsOf(campaign_summary.table, SummaryCols)
    /\ StoredFor("target_metrics", s, {"campaign_name", "targeting", "impressions",
                                       "clicks", "spend", "sales", "orders", "bid"})
           = RowsOf(targeting_df, {"campaign_name", "targeting", "impressions",
                                   "clicks", "spend", "sales", "orders", "bid"})
    /\ StoredFor("search_term_metrics", s, BaseCols) = RowsOf(search_term_df, BaseCols)
    /\ Cardinality({r \in db.search_term_metrics : r.snapshot_id = s.id})
           = Len(search_term_df.rows)
    /\ StoredFor("kdp_daily_sales", s, KdpCols) = RoyaltyRowsOfTheWeek
    /\ StoredFor("bid_recommendations", s, {"targeting", "conversion_rate"})
           = RowsOf(bid_recs.table, {"targeting", "conversion_rate"})
    /\ Cardinality({r \in db.bid_recommendations : r.snapshot_id = s.id})
           = Len(bid_recs.table.rows)

\* C27: after any sequence of saves, weekly_snapshots holds at most one row per
\* week_start, every row of the five child tables references an existing
\* snapshot, and once a save has succeeded the rows stored for its week are
\* exactly the rows that save wrote, whatever was stored for the week before.
C27_OneSnapshotPerWeek ==
    /\ \A s, q \in db.weekly_snapshots : s.week_start = q.week_start => s = q
    /\ \A table \in ChildTables : \A r \in db[table] : r.snapshot_id \in SnapshotIds(db)
    /\ SaveReported =>
          /\ \E s \in db.weekly_snapshots : s.week_start = week[1]
          /\ \A s \in db.weekly_snapshots : s.week_start = week[1] => HoldsTheRun(s)

\* the second run has saved the week the first run had saved: the first
\* snapshot is gone, the second is the only one, and it has child rows
C27_Witness ==
    /\ SaveReported
    /\ run.n = 2
    /\ db.sqlite_sequence["weekly_snapshots"] = 2
    /\ \E s \in db.weekly_snapshots :
          /\ db.weekly_snapshots = {s}
          /\ s.id = 2
          /\ s.week_start = week[1]
          /\ StoredFor("campaign_metrics", s, SummaryCols) # {}
          /\ StoredFor("kdp_daily_sales", s, KdpCols) # {}
          /\ prior_week_df # None

SaveWarned == run.echo = "Warning: Failed to save snapshot"

\* C28: when a statement of the save fails, the database is left exactly as it
\* was before the call, an earlier snapshot of the same week and its child rows
\* included, and the report warns of it only after it has written the markdown
\* report and, unless --no-terminal, the terminal report.
C28_FailedSaveRolledBack ==
    [][(pc = "save" /\ SaveWarned')
         => /\ db' = db
            /\ run.markdown
            /\ run.terminal \/ run.no_terminal
            /\ pc' = "report"]_vars

\* a save has failed on a week that already had a snapshot with child rows, and
\* both reports had been produced
C28_Witness ==
    /\ pc = "report"
    /\ SaveWarned
    /\ run.terminal
    /\ run.markdown
    /\ \E s \in db.weekly_snapshots :
          /\ s.week_start = week[1]
          /\ StoredFor("campaign_metrics", s, SummaryCols) # {}
          /\ StoredFor("target_metrics", s, {"targeting"}) # {}

====
